---- MODULE Spec2Model ----
(***************************************************************************)
(* A model of the nxt protocol client: the packet codec (protocol.rs), the *)
(* request/reply engine (lib.rs: Nxt::send, Nxt::recv, Nxt::send_recv and  *)
(* the operations built on them) and the length-prefixed stream transport  *)
(* (socket/bluetooth.rs).                                                  *)
(*                                                                         *)
(* Bytes are the naturals 0..255.  A Rust &str or String is modelled as    *)
(* the sequence of its UTF-8 bytes, so that len() is the byte length.      *)
(* A Result<T> is a record with err = "Ok" or the name of the Error        *)
(* variant, msg the variant's static text, val a number, bytes a byte      *)
(* sequence and pkt the packet after the call (a &mut self call keeps its  *)
(* side effects on an Err return).                                         *)
(*                                                                         *)
(* The module holds several specifications over one set of variables:      *)
(*   SpecCodec   the packet codec driven with bounded inputs               *)
(*   Spec        one caller of the engine against arbitrary replies        *)
(*   SpecLs      the directory listing loop against a faithful brick       *)
(*   SpecShared  two callers sharing one connection, faithful brick        *)
(*   SpecStream  Bluetooth::send / Bluetooth::recv over a byte stream      *)
(*   SpecRead    the read_* calls on parsed packets                        *)
(*   SpecTables  the closed tables of opcodes, types and status codes      *)
(*   SpecSerial  two callers, one exchange at a time                       *)
(*   SpecLate    one caller, replies that arrive after the read timed out  *)
(*   SpecMsg     Nxt::message_write                                        *)
(*   SpecFile    the file and find-next operations                         *)
(*   SpecOps     the other operations of lib.rs                            *)
(*   SpecAdapter init_adapter called concurrently                          *)
(* Each specification leaves the variables of the others untouched.        *)
(***************************************************************************)
EXTENDS Integers, Sequences, FiniteSets, TLC

VARIABLES
    pkt,        \* codec: the Packet being built or read
    ret,        \* codec: record of the last codec call and its result
    pc,         \* engine: per caller, "idle" | "sent" | "done"
    cur,        \* engine: per caller, the operation in progress
    result,     \* engine: per caller, the Result of the last operation
    toBrick,    \* engine: messages transmitted, not yet taken by the brick
    fromBrick,  \* engine: replies the brick produced, not yet received
    brick,      \* engine: the brick's own state (environment)
    log,        \* engine: ghost record of the transport calls made
    stream,     \* stream transport: bytes written and not yet read, ghost logs
    bt          \* bluetooth.rs: the connection's lock and the tasks using it
                \* (SpecStream); the ADAPTER slot and the init_adapter calls
                \* (SpecAdapter)

codecVars  == <<pkt, ret>>
engineVars == <<pc, cur, result, toBrick, fromBrick, brick, log>>
streamVars == <<stream, bt>>
vars == <<pkt, ret, pc, cur, result, toBrick, fromBrick, brick, log, stream, bt>>

-----------------------------------------------------------------------------
(* Byte helpers                                                            *)

Byte == 0..255

RECURSIVE Zeros(_)
Zeros(n) == IF n <= 0 THEN <<>> ELSE <<0>> \o Zeros(n - 1)

\* u16::to_le_bytes / u32::to_le_bytes
le_bytes_u16(v) == <<v % 256, (v \div 256) % 256>>
\* A u32 is held as its two 16-bit words [lo, hi] (value lo + 65536 * hi): the
\* model checker's integers are 32-bit signed.
U32(lo, hi) == [lo |-> lo, hi |-> hi]
le_bytes_u32(v) ==
    <<v.lo % 256, (v.lo \div 256) % 256, v.hi % 256, (v.hi \div 256) % 256>>

\* u16::from_le_bytes / u32::from_le_bytes
from_le_bytes_u16(b0, b1) == b0 + 256 * b1
from_le_bytes_u32(b0, b1, b2, b3) == U32(b0 + 256 * b1, b2 + 256 * b3)

\* two's complement reinterpretation, as i8/i16/i32::from_le_bytes do
as_i8(u)  == IF u >= 128 THEN u - 256 ELSE u
as_i16(u) == IF u >= 32768 THEN u - 65536 ELSE u
\* i32::from_le_bytes: an i32 fits the checker's integers
from_le_bytes_i32(b0, b1, b2, b3) ==
    LET low31 == b0 + 256 * b1 + 65536 * b2 + 16777216 * (b3 % 128)
    IN  IF b3 >= 128 THEN (low31 - 2147483647) - 1 ELSE low31

\* str::is_ascii
is_ascii(s) == \A i \in 1..Len(s) : s[i] < 128

\* the prefix of s before its first NUL byte: iter().take_while(|&ch| ch != 0)
RECURSIVE take_while_nonzero(_)
take_while_nonzero(s) ==
    IF s = <<>> \/ Head(s) = 0 THEN <<>>
    ELSE <<Head(s)>> \o take_while_nonzero(Tail(s))

\* s without its trailing NUL bytes: while ret.ends_with(&[0]) { strip_suffix }
RECURSIVE strip_trailing_nul(_)
strip_trailing_nul(s) ==
    IF s # <<>> /\ s[Len(s)] = 0 THEN strip_trailing_nul(SubSeq(s, 1, Len(s) - 1))
    ELSE s

\* String::from_utf8 accepts exactly the well-formed UTF-8 byte sequences
IsCont(b) == b >= 128 /\ b <= 191
RECURSIVE is_utf8(_)
is_utf8(s) ==
    IF s = <<>> THEN TRUE
    ELSE LET b == s[1]
             n == Len(s)
         IN  IF b < 128 THEN is_utf8(Tail(s))
             ELSE IF b >= 194 /\ b <= 223
                  THEN n >= 2 /\ IsCont(s[2]) /\ is_utf8(SubSeq(s, 3, n))
             ELSE IF b >= 224 /\ b <= 239
                  THEN /\ n >= 3
                       /\ IsCont(s[2]) /\ IsCont(s[3])
                       /\ (b = 224 => s[2] >= 160)
                       /\ (b = 237 => s[2] <= 159)
                       /\ is_utf8(SubSeq(s, 4, n))
             ELSE IF b >= 240 /\ b <= 244
                  THEN /\ n >= 4
                       /\ IsCont(s[2]) /\ IsCont(s[3]) /\ IsCont(s[4])
                       /\ (b = 240 => s[2] >= 144)
                       /\ (b = 244 => s[2] <= 143)
                       /\ is_utf8(SubSeq(s, 5, n))
             ELSE FALSE

-----------------------------------------------------------------------------
(* protocol.rs: the closed tables                                          *)

FILENAME_LEN == 20

\* enum Opcode, by numeric value
OpcodeSet ==
    (0..19) \cup (25..33) \cup (128..141) \cup {144, 145, 146, 148, 149, 151, 152,
    154, 155} \cup (160..164) \cup (208..211)

\* the Direct* members and the System* members of enum Opcode
DirectOpcodeSet == (0..19) \cup (25..33)
SystemOpcodeSet ==
    (128..141) \cup {144, 145, 146, 148, 149, 151, 152, 154, 155}
    \cup (160..164) \cup (208..211)

DirectStartProgram    == 0
DirectStopProgram     == 1
DirectPlaySoundFile   == 2
DirectPlayTone        == 3
DirectSetOutState     == 4
DirectSetInMode       == 5
DirectGetOutState     == 6
DirectGetInVals       == 7
DirectResetInVal      == 8
DirectMessageWrite    == 9
DirectResetPosition   == 10
DirectGetBattLevel    == 11
DirectStopSound       == 12
DirectKeepAlive       == 13
DirectLsGetStatus     == 14
DirectLsWrite         == 15
DirectLsRead          == 16
DirectGetCurrProgram  == 17
DirectMessageRead     == 19
SystemOpenread        == 128
SystemOpenwrite       == 129
SystemRead            == 130
SystemWrite           == 131
SystemClose           == 132
SystemDelete          == 133
SystemFindfirst       == 134
SystemFindnext        == 135
SystemVersions        == 136
SystemOpenwritelinear == 137
SystemOpenreadlinear  == 138
SystemOpenwritedata   == 139
SystemOpenappenddata  == 140
SystemFindfirstmodule == 144
SystemFindnextmodule  == 145
SystemClosemodhandle  == 146
SystemIomapread       == 148
SystemIomapwrite      == 149
SystemBootcmd         == 151
SystemSetbrickname    == 152
SystemBtgetaddr       == 154
SystemDeviceinfo      == 155
SystemDeleteuserflash == 160
SystemPollcmdlen      == 161
SystemPollcmd         == 162
SystemBtfactoryreset  == 164

\* Opcode::is_system: (self as u8) & 0x80 != 0
\* (mutant) is_system that tests bit 0x01
is_system_low_bit(opcode) == opcode % 2 = 1
is_system(opcode) == (opcode \div 128) % 2 = 1

\* enum DeviceError, by numeric value
DeviceErrorSet ==
    {0, 32, 64} \cup (129..147) \cup {189, 190, 191, 192, 221, 222, 223, 224,
    236, 237, 238, 239, 240, 251, 255}

DeviceError_None         == 0
DeviceError_FileNotFound == 135

\* enum PacketType, by numeric value
PacketTypeSet == {0, 1, 2, 128, 129}

PacketType_Direct == 0
PacketType_System == 1
PacketType_Reply  == 2

-----------------------------------------------------------------------------
(* Results                                                                 *)

\* the value standing for "no packet" in an Err(..) of a Result<Packet>
NoPacket == [typ |-> -1, opcode |-> -1, data |-> <<>>, data_offset |-> 0]

RetOk(p, v, b) ==
    [err |-> "Ok", msg |-> "", val |-> v, hi |-> 0, bytes |-> b, pkt |-> p]
RetErr(p, e, m) ==
    [err |-> e, msg |-> m, val |-> 0, hi |-> 0, bytes |-> <<>>, pkt |-> p]
\* Ok(v) for a u32 v: val is the low word and hi the high word
RetOkU32(p, v) ==
    [err |-> "Ok", msg |-> "", val |-> v.lo, hi |-> v.hi, bytes |-> <<>>, pkt |-> p]
\* Error::Device(status)
RetDevice(p, status) ==
    [err |-> "Device", msg |-> "", val |-> status, hi |-> 0, bytes |-> <<>>, pkt |-> p]

\* Option<T>::wrap: None becomes Error::Parse("Reached end of input")
EndOfInput == "Reached end of input"

-----------------------------------------------------------------------------
(* protocol.rs: impl Packet                                                *)

\* (mutant) new that tags every request as a direct command
Packet_new_direct(opcode) ==
    [typ |-> PacketType_Direct, opcode |-> opcode, data |-> <<>>, data_offset |-> 0]

\* Packet::new
Packet_new(opcode) ==
    [typ |-> IF is_system(opcode) THEN PacketType_System ELSE PacketType_Direct,
     opcode |-> opcode,
     data |-> <<>>,
     data_offset |-> 0]

\* impl PartialEq for Packet
Packet_eq(a, b) ==
    /\ a.typ = b.typ
    /\ a.opcode = b.opcode
    /\ SubSeq(a.data, a.data_offset + 1, Len(a.data))
         = SubSeq(b.data, b.data_offset + 1, Len(b.data))

\* Packet::read_u8
read_u8(p) ==
    IF p.data_offset < Len(p.data)
    THEN RetOk([p EXCEPT !.data_offset = @ + 1], p.data[p.data_offset + 1], <<>>)
    ELSE RetErr(p, "Parse", EndOfInput)

\* Packet::read_bool: the value is 1 for true, 0 for false
read_bool(p) ==
    IF p.data_offset < Len(p.data)
    THEN RetOk([p EXCEPT !.data_offset = @ + 1],
               IF p.data[p.data_offset + 1] # 0 THEN 1 ELSE 0, <<>>)
    ELSE RetErr(p, "Parse", EndOfInput)

\* Packet::read_i8
read_i8(p) ==
    IF p.data_offset < Len(p.data)
    THEN RetOk([p EXCEPT !.data_offset = @ + 1], as_i8(p.data[p.data_offset + 1]), <<>>)
    ELSE RetErr(p, "Parse", EndOfInput)

\* (mutant) read_u16 as the earlier protocol iteration had it: the byte under
\* the cursor taken twice, and the cursor moved by 4
read_u16_first_byte_twice(p) ==
    IF p.data_offset >= Len(p.data) THEN RetErr(p, "Parse", EndOfInput) ELSE
    LET b0 == p.data[p.data_offset + 1] IN
    RetOk([p EXCEPT !.data_offset = @ + 4], from_le_bytes_u16(b0, b0), <<>>)

\* Packet::read_u16: two read_u8 calls, each returning early on failure
read_u16(p) ==
    LET r0 == read_u8(p) IN
    IF r0.err # "Ok" THEN r0 ELSE
    LET r1 == read_u8(r0.pkt) IN
    IF r1.err # "Ok" THEN r1 ELSE
    RetOk(r1.pkt, from_le_bytes_u16(r0.val, r1.val), <<>>)

\* Packet::read_i16: two read_u8 calls, each returning early on failure
read_i16(p) ==
    LET r0 == read_u8(p) IN
    IF r0.err # "Ok" THEN r0 ELSE
    LET r1 == read_u8(r0.pkt) IN
    IF r1.err # "Ok" THEN r1 ELSE
    RetOk(r1.pkt, as_i16(from_le_bytes_u16(r0.val, r1.val)), <<>>)

\* (mutant) read_u32 as the earlier protocol iteration had it: only the byte
\* under the cursor is looked for, and the cursor is moved by 4
read_u32_first_byte_only(p) ==
    IF p.data_offset >= Len(p.data) THEN RetErr(p, "Parse", EndOfInput) ELSE
    LET b0 == p.data[p.data_offset + 1] IN
    RetOkU32([p EXCEPT !.data_offset = @ + 4], from_le_bytes_u32(b0, b0, b0, b0))

\* Packet::read_u32: four read_u8 calls, each returning early on failure
read_u32(p) ==
    LET r0 == read_u8(p) IN
    IF r0.err # "Ok" THEN r0 ELSE
    LET r1 == read_u8(r0.pkt) IN
    IF r1.err # "Ok" THEN r1 ELSE
    LET r2 == read_u8(r1.pkt) IN
    IF r2.err # "Ok" THEN r2 ELSE
    LET r3 == read_u8(r2.pkt) IN
    IF r3.err # "Ok" THEN r3 ELSE
    RetOkU32(r3.pkt, from_le_bytes_u32(r0.val, r1.val, r2.val, r3.val))

\* (mutant) read_i32 that looks for its four bytes before it takes any
read_i32_all_or_nothing(p) ==
    IF p.data_offset + 4 > Len(p.data) THEN RetErr(p, "Parse", EndOfInput) ELSE
    RetOk([p EXCEPT !.data_offset = @ + 4],
          from_le_bytes_i32(p.data[p.data_offset + 1], p.data[p.data_offset + 2],
                            p.data[p.data_offset + 3], p.data[p.data_offset + 4]),
          <<>>)

\* Packet::read_i32: four read_u8 calls, each returning early on failure
read_i32(p) ==
    LET r0 == read_u8(p) IN
    IF r0.err # "Ok" THEN r0 ELSE
    LET r1 == read_u8(r0.pkt) IN
    IF r1.err # "Ok" THEN r1 ELSE
    LET r2 == read_u8(r1.pkt) IN
    IF r2.err # "Ok" THEN r2 ELSE
    LET r3 == read_u8(r2.pkt) IN
    IF r3.err # "Ok" THEN r3 ELSE
    RetOk(r3.pkt, from_le_bytes_i32(r0.val, r1.val, r2.val, r3.val), <<>>)

\* Packet::read_slice
read_slice(p, len) ==
    IF p.data_offset + len > Len(p.data)
    THEN RetErr(p, "Parse", "Requested slice too long")
    ELSE RetOk([p EXCEPT !.data_offset = @ + len], 0,
               SubSeq(p.data, p.data_offset + 1, p.data_offset + len))

\* (mutant) read_filename that moves the cursor behind the name and its
\* terminator only
read_filename_to_terminator(p) ==
    IF p.data_offset + FILENAME_LEN > Len(p.data)
    THEN RetErr(p, "Parse", "Requested slice too long")
    ELSE LET field == SubSeq(p.data, p.data_offset + 1, p.data_offset + FILENAME_LEN)
             fname == take_while_nonzero(field)
             q     == [p EXCEPT !.data_offset =
                           @ + (IF Len(fname) < FILENAME_LEN THEN Len(fname) + 1
                                ELSE FILENAME_LEN)]
         IN  IF is_utf8(fname) THEN RetOk(q, 0, fname)
             ELSE RetErr(q, "InvalidString", "")

\* (mutant) read_filename that returns the field with its padding
read_filename_padded(p) ==
    IF p.data_offset + FILENAME_LEN > Len(p.data)
    THEN RetErr(p, "Parse", "Requested slice too long")
    ELSE LET field == SubSeq(p.data, p.data_offset + 1, p.data_offset + FILENAME_LEN)
             q     == [p EXCEPT !.data_offset = @ + FILENAME_LEN]
         IN  IF is_utf8(field) THEN RetOk(q, 0, field)
             ELSE RetErr(q, "InvalidString", "")

\* Packet::read_filename: the cursor moves before the text is decoded
read_filename(p) ==
    IF p.data_offset + FILENAME_LEN > Len(p.data)
    THEN RetErr(p, "Parse", "Requested slice too long")
    ELSE LET field == SubSeq(p.data, p.data_offset + 1, p.data_offset + FILENAME_LEN)
             q     == [p EXCEPT !.data_offset = @ + FILENAME_LEN]
             fname == take_while_nonzero(field)
         IN  IF is_utf8(fname) THEN RetOk(q, 0, fname)
             ELSE RetErr(q, "InvalidString", "")

\* (mutant) read_string that stops at the first NUL and moves the cursor by
\* the length of the text, as the earlier protocol iteration did
read_string_until_nul(p, max_len) ==
    LET rest == SubSeq(p.data, p.data_offset + 1, Len(p.data))
        t == take_while_nonzero(rest)
        s == SubSeq(t, 1, IF Len(t) < max_len THEN Len(t) ELSE max_len)
        q == [p EXCEPT !.data_offset = @ + Len(s)]
    IN  IF is_utf8(s) THEN RetOk(q, 0, s) ELSE RetErr(q, "InvalidString", "")

\* Packet::read_string
read_string(p, max_len) ==
    LET r == read_slice(p, max_len) IN
    IF r.err # "Ok" THEN r ELSE
    LET s == strip_trailing_nul(r.bytes) IN
    IF is_utf8(s) THEN RetOk(r.pkt, 0, s) ELSE RetErr(r.pkt, "InvalidString", "")

\* (mutant) parse that also consumes a status byte, as the earlier protocol
\* iteration did
Packet_parse_with_status(buf) ==
    LET p0 == [typ |-> PacketType_Direct, opcode |-> 0, data |-> buf, data_offset |-> 0]
        rt == read_u8(p0)
    IN  IF rt.err # "Ok" THEN RetErr(NoPacket, rt.err, rt.msg) ELSE
        IF rt.val \notin PacketTypeSet
        THEN RetErr(NoPacket, "Parse", "Invalid packet type") ELSE
        LET ro == read_u8(rt.pkt) IN
        IF ro.err # "Ok" THEN RetErr(NoPacket, ro.err, ro.msg) ELSE
        IF ro.val \notin OpcodeSet
        THEN RetErr(NoPacket, "Parse", "Invalid opcode") ELSE
        LET rs == read_u8(ro.pkt) IN
        IF rs.err # "Ok" THEN RetErr(NoPacket, rs.err, rs.msg) ELSE
        RetOk([rs.pkt EXCEPT !.typ = rt.val, !.opcode = ro.val], 0, <<>>)

\* (mutant) parse that takes an unknown type byte for a direct command
Packet_parse_lenient(buf) ==
    LET p0 == [typ |-> PacketType_Direct, opcode |-> 0, data |-> buf, data_offset |-> 0]
        rt == read_u8(p0)
    IN  IF rt.err # "Ok" THEN RetErr(NoPacket, rt.err, rt.msg) ELSE
        LET ro == read_u8(rt.pkt) IN
        IF ro.err # "Ok" THEN RetErr(NoPacket, ro.err, ro.msg) ELSE
        IF ro.val \notin OpcodeSet
        THEN RetErr(NoPacket, "Parse", "Invalid opcode") ELSE
        RetOk([ro.pkt EXCEPT !.typ = IF rt.val \in PacketTypeSet THEN rt.val
                                      ELSE PacketType_Direct,
                             !.opcode = ro.val], 0, <<>>)

\* (mutant) parse that checks the two header bytes and leaves the cursor on
\* the type byte
Packet_parse_header_unread(buf) ==
    LET p0 == [typ |-> PacketType_Direct, opcode |-> 0, data |-> buf, data_offset |-> 0]
        rt == read_u8(p0)
    IN  IF rt.err # "Ok" THEN RetErr(NoPacket, rt.err, rt.msg) ELSE
        IF rt.val \notin PacketTypeSet
        THEN RetErr(NoPacket, "Parse", "Invalid packet type") ELSE
        LET ro == read_u8(rt.pkt) IN
        IF ro.err # "Ok" THEN RetErr(NoPacket, ro.err, ro.msg) ELSE
        IF ro.val \notin OpcodeSet
        THEN RetErr(NoPacket, "Parse", "Invalid opcode") ELSE
        RetOk([p0 EXCEPT !.typ = rt.val, !.opcode = ro.val], 0, <<>>)

\* Packet::parse: the whole buffer is kept as data and the two header bytes
\* are consumed through the cursor
Packet_parse(buf) ==
    LET p0 == [typ |-> PacketType_Direct, opcode |-> 0, data |-> buf, data_offset |-> 0]
        rt == read_u8(p0)
    IN  IF rt.err # "Ok" THEN RetErr(NoPacket, rt.err, rt.msg) ELSE
        IF rt.val \notin PacketTypeSet
        THEN RetErr(NoPacket, "Parse", "Invalid packet type") ELSE
        LET ro == read_u8(rt.pkt) IN
        IF ro.err # "Ok" THEN RetErr(NoPacket, ro.err, ro.msg) ELSE
        IF ro.val \notin OpcodeSet
        THEN RetErr(NoPacket, "Parse", "Invalid opcode") ELSE
        RetOk([ro.pkt EXCEPT !.typ = rt.val, !.opcode = ro.val], 0, <<>>)

\* DeviceError::error
DeviceError_error(p, status) ==
    IF status = DeviceError_None THEN RetOk(p, 0, <<>>) ELSE RetDevice(p, status)

\* (mutant) an unrecognised status byte reported as a device error
check_status_merged(p) ==
    LET r == read_u8(p) IN
    IF r.err # "Ok" THEN r ELSE DeviceError_error(r.pkt, r.val)

\* Packet::check_status
check_status(p) ==
    LET r == read_u8(p) IN
    IF r.err # "Ok" THEN r ELSE
    IF r.val \notin DeviceErrorSet THEN RetErr(r.pkt, "Parse", "Invalid status") ELSE
    DeviceError_error(r.pkt, r.val)

\* (mutant) serialise that writes the two header bytes only
serialise_header_only(p, buf_len) ==
    IF 2 > buf_len THEN RetErr(p, "Io", "") ELSE RetOk(p, 0, <<p.typ, p.opcode>>)

\* (mutant) serialise that writes as much of the packet as the buffer holds
serialise_truncating(p, buf_len) ==
    RetOk(p, 0, SubSeq(<<p.typ, p.opcode>> \o p.data, 1,
                       IF 2 + Len(p.data) > buf_len THEN buf_len ELSE 2 + Len(p.data)))

\* Packet::serialise into a buffer of buf_len bytes: write_all fails unless
\* everything fits
serialise(p, buf_len) ==
    IF 2 > buf_len THEN RetErr(p, "Io", "") ELSE
    IF 2 + Len(p.data) > buf_len THEN RetErr(p, "Io", "") ELSE
    RetOk(p, 0, <<p.typ, p.opcode>> \o p.data)

\* (mutant) push_filename that appends the terminator only, without padding
push_filename_unpadded(p, name) ==
    IF Len(name) + 1 > FILENAME_LEN THEN RetErr(p, "Serialise", "Filename too long")
    ELSE IF ~is_ascii(name) THEN RetErr(p, "Serialise", "Filename must be ascii")
    ELSE RetOk([p EXCEPT !.data = @ \o name \o <<0>>], 0, <<>>)

\* (mutant) push_filename that leaves no room for the terminator
push_filename_no_terminator(p, name) ==
    IF Len(name) > FILENAME_LEN THEN RetErr(p, "Serialise", "Filename too long")
    ELSE IF ~is_ascii(name) THEN RetErr(p, "Serialise", "Filename must be ascii")
    ELSE RetOk([p EXCEPT !.data = @ \o name \o Zeros(FILENAME_LEN - Len(name))],
               0, <<>>)

\* Packet::push_filename
push_filename(p, name) ==
    IF Len(name) + 1 > FILENAME_LEN THEN RetErr(p, "Serialise", "Filename too long")
    ELSE IF ~is_ascii(name) THEN RetErr(p, "Serialise", "Filename must be ascii")
    ELSE RetOk([p EXCEPT !.data = @ \o name \o Zeros(FILENAME_LEN - Len(name))],
               0, <<>>)

\* (mutant) push_str that appends the text and one NUL, as the earlier
\* protocol iteration did
push_str_single_nul(p, s, max_len) ==
    IF Len(s) + 1 > max_len THEN RetErr(p, "Serialise", "String too long")
    ELSE RetOk([p EXCEPT !.data = @ \o s \o <<0>>], 0, <<>>)

\* Packet::push_str
push_str(p, s, max_len) ==
    IF Len(s) + 1 > max_len THEN RetErr(p, "Serialise", "String too long")
    ELSE RetOk([p EXCEPT !.data = @ \o s \o Zeros(max_len - Len(s))], 0, <<>>)

\* Packet::push_bool / push_u8 / push_i8 / push_u16 / push_u32 / push_slice
push_bool(p, val)  == [p EXCEPT !.data = Append(@, IF val THEN 1 ELSE 0)]
push_u8(p, val)    == [p EXCEPT !.data = Append(@, val)]
push_i8(p, val)    == [p EXCEPT !.data = Append(@, val % 256)]
push_u16(p, val)   == [p EXCEPT !.data = @ \o le_bytes_u16(val)]
push_u32(p, val)   == [p EXCEPT !.data = @ \o le_bytes_u32(val)]
push_slice(p, data) == [p EXCEPT !.data = @ \o data]

-----------------------------------------------------------------------------
(* Bounds and input sets of the codec specification                        *)

\* the longest name (in bytes) offered to push_filename / push_str
MaxNameLen == 21
\* the number of push calls made on one packet
MaxPushes == 2

\* lib.rs: let mut buf = [0; 64] in Nxt::send and Nxt::recv
BUF_LEN == 64
\* lib.rs: MAX_NAME_LEN, the bound of the brick name field
MAX_NAME_LEN == 15

\* "aaa..." of n bytes
NameOfLen(n) == [i \in 1..n |-> 97]
A_FILE == <<97, 95, 102, 105, 108, 101>>      \* "a_file"
TEST   == <<116, 101, 115, 116>>              \* "test"
E_ACUTE == <<195, 169>>                       \* U+00E9, two bytes, not ASCII
WITH_NUL == <<97, 0, 98>>                     \* "a\0b"

TestNames ==
    {NameOfLen(n) : n \in {0, 1} \cup ((FILENAME_LEN - 2)..MaxNameLen)}
    \cup {A_FILE, E_ACUTE, WITH_NUL, NameOfLen(FILENAME_LEN - 3) \o E_ACUTE}

TestStrings == {<<>>, TEST, NameOfLen(MAX_NAME_LEN - 1), NameOfLen(MAX_NAME_LEN), WITH_NUL}
TestStrBounds == {0, 4, 5, MAX_NAME_LEN}

CodecOpcodes == {DirectGetBattLevel, SystemSetbrickname}
TestU8   == {0, 7, 255}
TestI8   == {-128, -1, 100}
TestU16  == {11, 4660, 65535}
TestU32  == {U32(1, 10), U32(65535, 65535)}
TestSlices == {<<>>, <<1, 0, 2>>, NameOfLen(BUF_LEN - 3), NameOfLen(BUF_LEN - 2), NameOfLen(BUF_LEN - 1)}

\* buffers handed to Packet::parse: every status byte behind a reply header,
\* and buffers that are short or carry a byte outside the closed tables
ParseInputs ==
    {<<PacketType_Reply, DirectGetBattLevel, b>> : b \in Byte}
    \cup {<<t, DirectGetBattLevel, 0>> : t \in {0, 1, 2, 3, 127, 128, 129, 130, 255}}
    \cup {<<PacketType_Reply, o, 0>> : o \in {0, 19, 20, 24, 33, 34, 127, 128, 141, 142, 211, 212, 255}}
    \cup {<<>>, <<PacketType_Reply>>, <<PacketType_Reply, DirectGetBattLevel>>,
          <<PacketType_Reply, DirectGetBattLevel, 0, 11, 0>>}

-----------------------------------------------------------------------------
(* The other specifications' variables at rest                             *)

EngineOff ==
    /\ pc = <<>> /\ cur = <<>> /\ result = <<>>
    /\ toBrick = <<>> /\ fromBrick = <<>> /\ brick = <<>> /\ log = <<>>
StreamOff == stream = <<>> /\ bt = <<>>
CodecOff  == pkt = NoPacket /\ ret = <<>>

-----------------------------------------------------------------------------
(* SpecCodec: Packet::new, the push_* calls, serialise, parse and          *)
(* check_status, each call recorded in ret with the packet it was made on. *)

CallRec(op, n, arg, argb, r) ==
    [op |-> op, npush |-> n, pre |-> pkt, arg |-> arg, argb |-> argb,
     err |-> r.err, msg |-> r.msg, val |-> r.val, hi |-> r.hi, bytes |-> r.bytes]

CodecInit ==
    /\ \E opcode \in CodecOpcodes :
          /\ pkt = Packet_new(opcode)
          /\ ret = [op |-> "new", npush |-> 0, pre |-> NoPacket, arg |-> opcode,
                    argb |-> <<>>, err |-> "Ok", msg |-> "", val |-> 0, hi |-> 0,
                    bytes |-> <<>>]
    /\ EngineOff /\ StreamOff

\* the codec's calls touch no other component
CodecFrame == UNCHANGED <<pc, cur, result, toBrick, fromBrick, brick, log, stream, bt>>

\* a push: Result<()> with the packet as the call left it
DoPush(op, arg, argb, r) ==
    /\ ret.npush < MaxPushes
    /\ CodecFrame
    /\ pkt' = r.pkt
    /\ ret' = CallRec(op, ret.npush + 1, arg, argb, r)

\* an associated function (no self): the record keeps no previous packet
StaticRec(op, n, arg, argb, r) == [CallRec(op, n, arg, argb, r) EXCEPT !.pre = NoPacket]

CodecNew ==
    \E opcode \in CodecOpcodes :
        /\ pkt' = Packet_new(opcode)
        /\ ret' = StaticRec("new", 0, opcode, <<>>, RetOk(Packet_new(opcode), 0, <<>>))
        /\ CodecFrame

CodecPushFilename ==
    \E name \in TestNames : DoPush("push_filename", 0, name, push_filename(pkt, name))

CodecPushStr ==
    \E s \in TestStrings, n \in TestStrBounds :
        DoPush("push_str", n, s, push_str(pkt, s, n))

CodecPushBool ==
    \E v \in BOOLEAN :
        DoPush("push_bool", IF v THEN 1 ELSE 0, <<>>, RetOk(push_bool(pkt, v), 0, <<>>))

CodecPushU8 ==
    \E v \in TestU8 : DoPush("push_u8", v, <<>>, RetOk(push_u8(pkt, v), 0, <<>>))

CodecPushI8 ==
    \E v \in TestI8 : DoPush("push_i8", v, <<>>, RetOk(push_i8(pkt, v), 0, <<>>))

CodecPushU16 ==
    \E v \in TestU16 : DoPush("push_u16", v, <<>>, RetOk(push_u16(pkt, v), 0, <<>>))

CodecPushU32 ==
    \E v \in TestU32 : DoPush("push_u32", v.lo, <<>>, RetOk(push_u32(pkt, v), 0, <<>>))

CodecPushSlice ==
    \E d \in TestSlices : DoPush("push_slice", 0, d, RetOk(push_slice(pkt, d), 0, <<>>))

\* serialise(&self, buf): the packet is not changed.  (Only packets under
\* construction are serialised, as in Nxt::send.)
CodecSerialise ==
    /\ ret.op # "serialise"
    /\ pkt # NoPacket /\ pkt.data_offset = 0
    /\ CodecFrame
    /\ pkt' = pkt
    /\ ret' = CallRec("serialise", ret.npush, BUF_LEN, <<>>, serialise(pkt, BUF_LEN))

\* Packet::parse of the bytes the last serialise returned
CodecParseBack ==
    /\ ret.op = "serialise" /\ ret.err = "Ok"
    /\ CodecFrame
    /\ LET r == Packet_parse(ret.bytes) IN
        /\ pkt' = r.pkt
        /\ ret' = CallRec("parse_back", MaxPushes, 0, ret.bytes, r)

\* Packet::parse of a received buffer; pkt is the Result's packet, NoPacket
\* on Err.  (Taken after a new only: parse reads nothing of the state.)
CodecParse ==
    /\ ret.op = "new"
    /\ CodecFrame
    /\ \E buf \in ParseInputs :
        LET r == Packet_parse(buf) IN
        /\ pkt' = r.pkt
        /\ ret' = StaticRec("parse", MaxPushes, 0, buf, r)

CodecCheckStatus ==
    /\ ret.op = "parse" /\ ret.err = "Ok"
    /\ CodecFrame
    /\ LET r == check_status(pkt) IN
        /\ pkt' = r.pkt
        /\ ret' = CallRec("check_status", MaxPushes, 0, <<>>, r)

\* read_string on a packet that parse has just returned
CodecReadString ==
    /\ ret.op = "parse_back" /\ ret.err = "Ok"
    /\ CodecFrame
    /\ \E n \in TestStrBounds :
        LET r == read_string(pkt, n) IN
        /\ pkt' = r.pkt
        /\ ret' = CallRec("read_string", MaxPushes, n, <<>>, r)

\* read_u8 of the field behind the string
CodecReadU8 ==
    /\ ret.op = "read_string" /\ ret.err = "Ok"
    /\ CodecFrame
    /\ LET r == read_u8(pkt) IN
        /\ pkt' = r.pkt
        /\ ret' = CallRec("read_u8", MaxPushes, 0, <<>>, r)

CodecNext ==
    \/ CodecNew
    \/ CodecPushFilename
    \/ CodecPushStr
    \/ CodecPushBool
    \/ CodecPushU8
    \/ CodecPushI8
    \/ CodecPushU16
    \/ CodecPushU32
    \/ CodecPushSlice
    \/ CodecSerialise
    \/ CodecParseBack
    \/ CodecParse
    \/ CodecCheckStatus
    \/ CodecReadString
    \/ CodecReadU8

SpecCodec == CodecInit /\ [][CodecNext]_vars

-----------------------------------------------------------------------------
(* SpecRead: the read_* calls, in any order and number, on packets parsed  *)
(* from given buffers and on packets built by a push, serialised and       *)
(* parsed back.  Each call is recorded in ret with the packet it was made  *)
(* on.                                                                     *)

\* payloads behind the two header bytes: integers, and 20-byte filename
\* fields (NUL-padded, with a NUL inside, without any NUL, with a two-byte
\* character, not UTF-8), one byte short, exact and with a byte behind
ReadPayloads ==
    {<<>>, <<7>>, <<52, 18, 255, 255, 128>>, <<0, 0, 0, 128, 1>>,
     A_FILE \o Zeros(FILENAME_LEN - 6) \o <<9>>,
     WITH_NUL \o Zeros(FILENAME_LEN - 3),
     <<97, 0, 98, 0, 0, 99>> \o Zeros(FILENAME_LEN - 7) \o <<100, 0>>,
     NameOfLen(FILENAME_LEN - 1),
     NameOfLen(FILENAME_LEN) \o <<9>>,
     E_ACUTE \o Zeros(FILENAME_LEN - 2),
     <<97, 255>> \o Zeros(FILENAME_LEN - 2) \o <<9>>}

\* names push_filename accepts
ReadNames == {<<>>, A_FILE, NameOfLen(1), NameOfLen(FILENAME_LEN - 1)}

ReadLens == {0, 3, FILENAME_LEN}
ReadOps ==
    {"read_bool", "read_u8", "read_i8", "read_u16", "read_i16", "read_u32",
     "read_i32", "read_slice", "read_filename", "read_string"}

ReadInit ==
    /\ \E q \in {Packet_new(SystemFindfirst)} :
         \E built \in
              {push_slice(q, b) : b \in ReadPayloads}
              \cup {push_u16(q, v) : v \in TestU16}
              \cup {push_u32(q, v) : v \in TestU32}
              \cup {push_u8(push_filename(q, name).pkt, 9) : name \in ReadNames} :
            /\ pkt = Packet_parse(serialise(built, BUF_LEN).bytes).pkt
            /\ ret = [op |-> "parse", npush |-> 0, pre |-> NoPacket, arg |-> 0,
                      argb |-> serialise(built, BUF_LEN).bytes, err |-> "Ok",
                      msg |-> "", val |-> 0, hi |-> 0, bytes |-> <<>>]
    /\ EngineOff /\ StreamOff

\* one read call on the packet
ReadStep(op, n) ==
    /\ CodecFrame
    /\ LET r == CASE op = "read_bool"     -> read_bool(pkt)
                  [] op = "read_u8"       -> read_u8(pkt)
                  [] op = "read_i8"       -> read_i8(pkt)
                  [] op = "read_u16"      -> read_u16(pkt)
                  [] op = "read_i16"      -> read_i16(pkt)
                  [] op = "read_u32"      -> read_u32(pkt)
                  [] op = "read_i32"      -> read_i32(pkt)
                  [] op = "read_slice"    -> read_slice(pkt, n)
                  [] op = "read_filename" -> read_filename(pkt)
                  [] op = "read_string"   -> read_string(pkt, n)
       IN  /\ pkt' = r.pkt
           /\ ret' = CallRec(op, 0, n, <<>>, r)

ReadNext ==
    \/ \E op \in ReadOps \ {"read_slice", "read_string"} : ReadStep(op, 0)
    \/ \E op \in {"read_slice", "read_string"}, n \in ReadLens : ReadStep(op, n)

SpecRead == ReadInit /\ [][ReadNext]_vars

-----------------------------------------------------------------------------
(* SpecTables: the closed tables.  Opcode::is_system and Packet::new on    *)
(* every opcode, the pushes on the packets new returns, and Packet::parse  *)
(* on buffers whose first and second byte range over all byte values.      *)

TableBufs ==
    {<<t, o>> : t \in Byte, o \in {0, DirectGetBattLevel, 20, SystemOpenread}}
    \cup {<<t, o>> : t \in {0, 1, 2, 3, 127, 128, 129, 130, 255}, o \in Byte}
    \cup {<<t, o, 0, 7>> : t \in {1, 2, 4}, o \in {DirectGetInVals, 34, 142, 211, 212}}
    \cup {<<>>} \cup {<<t>> : t \in {0, 2, 3, DirectGetBattLevel}}

TblInit ==
    /\ \E opcode \in OpcodeSet :
          /\ pkt = Packet_new(opcode)
          /\ ret = [op |-> "new", npush |-> 0, pre |-> NoPacket, arg |-> opcode,
                    argb |-> <<>>, err |-> "Ok", msg |-> "", val |-> 0, hi |-> 0,
                    bytes |-> <<>>]
    /\ EngineOff /\ StreamOff

\* (Taken after is_system or parse, which leave no request under way.)
TblNew ==
    \E opcode \in OpcodeSet :
        /\ ret.op \in {"is_system", "parse"}
        /\ pkt' = Packet_new(opcode)
        /\ ret' = StaticRec("new", 0, opcode, <<>>, RetOk(Packet_new(opcode), 0, <<>>))
        /\ CodecFrame

\* Opcode::is_system; the value is 1 for true, 0 for false
TblIsSystem ==
    /\ ret.op = "new"
    /\ CodecFrame
    /\ pkt' = pkt
    /\ ret' = CallRec("is_system", MaxPushes, pkt.opcode, <<>>,
                      RetOk(pkt, IF is_system(pkt.opcode) THEN 1 ELSE 0, <<>>))

\* Packet::parse of a received buffer
TblParse ==
    /\ ret.op = "new"
    /\ CodecFrame
    /\ \E buf \in TableBufs :
        LET r == Packet_parse(buf) IN
        /\ pkt' = r.pkt
        /\ ret' = StaticRec("parse", MaxPushes, 0, buf, r)

\* the pushes are those of SpecCodec, here on the packet new returned
TblNext ==
    \/ TblNew
    \/ TblIsSystem
    \/ TblParse
    \/ (ret.op = "new" /\ CodecPushFilename)
    \/ (ret.op = "new" /\ CodecPushStr)
    \/ (ret.op = "new" /\ CodecPushBool)
    \/ (ret.op = "new" /\ CodecPushU8)
    \/ (ret.op = "new" /\ CodecPushI8)
    \/ (ret.op = "new" /\ CodecPushU16)
    \/ (ret.op = "new" /\ CodecPushU32)
    \/ (ret.op = "new" /\ CodecPushSlice)

SpecTables == TblInit /\ [][TblNext]_vars

-----------------------------------------------------------------------------
(* lib.rs: the request/reply engine                                        *)

\* sensor.rs: enum InPort, enum SensorType, enum SensorMode by numeric value
InPortSet     == 0..3
SensorTypeSet == 0..18
SensorModeSet == {0, 32, 64, 96, 128, 160, 192, 224}

\* motor.rs: enum OutPort, enum RegulationMode, enum RunState by numeric value
OutPortSet        == (0..6) \cup {255}
RegulationModeSet == 0..2
RunStateSet       == {0, 16, 32, 64}

\* lib.rs: the display constants.  MOD_DISPLAY is the u32 0xa0001.
MOD_DISPLAY             == 655361
DISPLAY_DATA_OFFSET     == 119
DISPLAY_WIDTH           == 100
DISPLAY_HEIGHT          == 64
DISPLAY_DATA_LEN        == (DISPLAY_WIDTH * DISPLAY_HEIGHT) \div 8
DISPLAY_DATA_CHUNK_SIZE == 32
DISPLAY_NUM_CHUNKS      == DISPLAY_DATA_LEN \div DISPLAY_DATA_CHUNK_SIZE

\* The Result of a high-level operation: the fields of a codec result, and
\* out, the decoded struct (a record) when the operation returns one.
NoResult == [err |-> "None", msg |-> "", val |-> 0, hi |-> 0, bytes |-> <<>>, out |-> <<>>]
Res(r, out) ==
    [err |-> r.err, msg |-> r.msg, val |-> r.val, hi |-> r.hi, bytes |-> r.bytes,
     out |-> out]
ResErr(e, m) == [err |-> e, msg |-> m, val |-> 0, hi |-> 0, bytes |-> <<>>, out |-> <<>>]

\* (mutant) recv that leaves the status byte in the packet it returns
Nxt_recv_status_unread(buf, opcode) ==
    LET p == Packet_parse(buf) IN
    IF p.err # "Ok" THEN p ELSE
    IF p.pkt.opcode = opcode THEN RetOk(p.pkt, 0, <<>>)
    ELSE RetErr(NoPacket, "ReplyMismatch", "")

\* (mutant) recv that classifies the status byte without moving the cursor
Nxt_recv_status_peeked(buf, opcode) ==
    LET p == Packet_parse(buf) IN
    IF p.err # "Ok" THEN p ELSE
    LET cs == check_status(p.pkt) IN
    IF cs.err # "Ok" THEN [cs EXCEPT !.pkt = NoPacket] ELSE
    IF p.pkt.opcode = opcode THEN RetOk(p.pkt, 0, <<>>)
    ELSE RetErr(NoPacket, "ReplyMismatch", "")

\* (mutant) recv that never compares the opcodes
Nxt_recv_unchecked(buf, opcode) ==
    LET p == Packet_parse(buf) IN
    IF p.err # "Ok" THEN p ELSE
    LET cs == check_status(p.pkt) IN
    IF cs.err # "Ok" THEN [cs EXCEPT !.pkt = NoPacket] ELSE RetOk(cs.pkt, 0, <<>>)

\* Nxt::recv, from the bytes read_bulk returned: parse, then check_status,
\* then the opcode comparison
Nxt_recv(buf, opcode) ==
    LET p == Packet_parse(buf) IN
    IF p.err # "Ok" THEN p ELSE
    LET cs == check_status(p.pkt) IN
    IF cs.err # "Ok" THEN [cs EXCEPT !.pkt = NoPacket] ELSE
    IF cs.pkt.opcode = opcode THEN RetOk(cs.pkt, 0, <<>>)
    ELSE RetErr(NoPacket, "ReplyMismatch", "")

\* Nxt::get_battery_level, after send_recv: recv.read_u16()
decode_battery_level(recv) == Res(read_u16(recv), <<>>)

\* Nxt::get_input_values, after send_recv: nine fields, each read returning
\* early on failure
decode_input_values(recv) ==
    LET r1 == read_u8(recv) IN
    IF r1.err # "Ok" THEN Res(r1, <<>>) ELSE
    IF r1.val \notin InPortSet THEN ResErr("Parse", "Invalid InPort") ELSE
    LET r2 == read_bool(r1.pkt) IN
    IF r2.err # "Ok" THEN Res(r2, <<>>) ELSE
    LET r3 == read_bool(r2.pkt) IN
    IF r3.err # "Ok" THEN Res(r3, <<>>) ELSE
    LET r4 == read_u8(r3.pkt) IN
    IF r4.err # "Ok" THEN Res(r4, <<>>) ELSE
    IF r4.val \notin SensorTypeSet THEN ResErr("Parse", "Invalid SensorType") ELSE
    LET r5 == read_u8(r4.pkt) IN
    IF r5.err # "Ok" THEN Res(r5, <<>>) ELSE
    IF r5.val \notin SensorModeSet THEN ResErr("Parse", "Invalid SensorMode") ELSE
    LET r6 == read_u16(r5.pkt) IN
    IF r6.err # "Ok" THEN Res(r6, <<>>) ELSE
    LET r7 == read_u16(r6.pkt) IN
    IF r7.err # "Ok" THEN Res(r7, <<>>) ELSE
    LET r8 == read_i16(r7.pkt) IN
    IF r8.err # "Ok" THEN Res(r8, <<>>) ELSE
    LET r9 == read_i16(r8.pkt) IN
    IF r9.err # "Ok" THEN Res(r9, <<>>) ELSE
    Res(RetOk(NoPacket, 0, <<>>),
        [port |-> r1.val, valid |-> r2.val = 1, calibrated |-> r3.val = 1,
         sensor_type |-> r4.val, sensor_mode |-> r5.val, raw_value |-> r6.val,
         normalised_value |-> r7.val, scaled_value |-> r8.val,
         calibrated_value |-> r9.val])

\* Nxt::file_find_first / Nxt::file_find_next, after send_recv:
\* FindFileHandle { handle, name, len }
decode_find(recv) ==
    LET r1 == read_u8(recv) IN
    IF r1.err # "Ok" THEN Res(r1, <<>>) ELSE
    LET r2 == read_filename(r1.pkt) IN
    IF r2.err # "Ok" THEN Res(r2, <<>>) ELSE
    LET r3 == read_u32(r2.pkt) IN
    IF r3.err # "Ok" THEN Res(r3, <<>>) ELSE
    Res(RetOk(NoPacket, 0, <<>>),
        [handle |-> r1.val, name |-> r2.bytes, len |-> U32(r3.val, r3.hi)])

\* Nxt::module_find_first / Nxt::module_find_next, after send_recv:
\* ModuleHandle { handle, name, id, len, iomap_len }
decode_module_find(recv) ==
    LET r1 == read_u8(recv) IN
    IF r1.err # "Ok" THEN Res(r1, <<>>) ELSE
    LET r2 == read_filename(r1.pkt) IN
    IF r2.err # "Ok" THEN Res(r2, <<>>) ELSE
    LET r3 == read_u32(r2.pkt) IN
    IF r3.err # "Ok" THEN Res(r3, <<>>) ELSE
    LET r4 == read_u32(r3.pkt) IN
    IF r4.err # "Ok" THEN Res(r4, <<>>) ELSE
    LET r5 == read_u16(r4.pkt) IN
    IF r5.err # "Ok" THEN Res(r5, <<>>) ELSE
    Res(RetOk(NoPacket, 0, <<>>),
        [handle |-> r1.val, name |-> r2.bytes, id |-> U32(r3.val, r3.hi),
         len |-> U32(r4.val, r4.hi), iomap_len |-> r5.val])

\* Nxt::file_open_read, after send_recv: FileHandle { handle, len }
decode_file_open_read(recv) ==
    LET r1 == read_u8(recv) IN
    IF r1.err # "Ok" THEN Res(r1, <<>>) ELSE
    LET r2 == read_u32(r1.pkt) IN
    IF r2.err # "Ok" THEN Res(r2, <<>>) ELSE
    Res(RetOk(NoPacket, 0, <<>>), [handle |-> r1.val, len |-> U32(r2.val, r2.hi)])

\* Nxt::file_read, after send_recv: the handle, a length byte, that many bytes
decode_file_read(recv) ==
    LET r1 == read_u8(recv) IN
    IF r1.err # "Ok" THEN Res(r1, <<>>) ELSE
    LET r2 == read_u8(r1.pkt) IN
    IF r2.err # "Ok" THEN Res(r2, <<>>) ELSE
    LET r3 == read_slice(r2.pkt, r2.val) IN
    IF r3.err # "Ok" THEN Res(r3, <<>>) ELSE
    Res(RetOk(NoPacket, 0, r3.bytes), <<>>)

\* Nxt::file_write, after send_recv: the handle, then recv.read_u32()
decode_file_write(recv) ==
    LET r1 == read_u8(recv) IN
    IF r1.err # "Ok" THEN Res(r1, <<>>) ELSE
    Res(read_u32(r1.pkt), <<>>)

\* u8::try_into for an enum: Error::Parse(msg) for a byte that is not one
\* of its values
try_into(r, values, msg) ==
    IF r.err # "Ok" \/ r.val \in values THEN r ELSE RetErr(NoPacket, "Parse", msg)

\* Nxt::get_output_state, after recv: ten fields, each read returning early
\* on failure
decode_output_state(recv) ==
    LET r1 == try_into(read_u8(recv), OutPortSet, "Invalid OutPort") IN
    IF r1.err # "Ok" THEN Res(r1, <<>>) ELSE
    LET r2 == read_i8(r1.pkt) IN
    IF r2.err # "Ok" THEN Res(r2, <<>>) ELSE
    LET r3 == read_u8(r2.pkt) IN
    IF r3.err # "Ok" THEN Res(r3, <<>>) ELSE
    LET r4 == try_into(read_u8(r3.pkt), RegulationModeSet, "Invalid RegulationMode") IN
    IF r4.err # "Ok" THEN Res(r4, <<>>) ELSE
    LET r5 == read_i8(r4.pkt) IN
    IF r5.err # "Ok" THEN Res(r5, <<>>) ELSE
    LET r6 == try_into(read_u8(r5.pkt), RunStateSet, "Invalid RunState") IN
    IF r6.err # "Ok" THEN Res(r6, <<>>) ELSE
    LET r7 == read_u32(r6.pkt) IN
    IF r7.err # "Ok" THEN Res(r7, <<>>) ELSE
    LET r8 == read_i32(r7.pkt) IN
    IF r8.err # "Ok" THEN Res(r8, <<>>) ELSE
    LET r9 == read_i32(r8.pkt) IN
    IF r9.err # "Ok" THEN Res(r9, <<>>) ELSE
    LET r10 == read_i32(r9.pkt) IN
    IF r10.err # "Ok" THEN Res(r10, <<>>) ELSE
    Res(RetOk(NoPacket, 0, <<>>),
        [port |-> r1.val, power |-> r2.val, mode |-> r3.val,
         regulation_mode |-> r4.val, turn_ratio |-> r5.val, run_state |-> r6.val,
         tacho_limit |-> U32(r7.val, r7.hi), tacho_count |-> r8.val,
         block_tacho_count |-> r9.val, rotation_count |-> r10.val])

\* Nxt::get_device_info, the bytes behind the name: six address bytes, a
\* byte that is dropped, four signal strengths
RECURSIVE read_u8s(_, _)
read_u8s(p, n) ==
    IF n = 0 THEN RetOk(p, 0, <<>>) ELSE
    LET r == read_u8(p) IN
    IF r.err # "Ok" THEN r ELSE
    LET rest == read_u8s(r.pkt, n - 1) IN
    IF rest.err # "Ok" THEN rest ELSE RetOk(rest.pkt, 0, <<r.val>> \o rest.bytes)

\* Nxt::get_device_info, after send_recv: the name, six address bytes, a
\* byte that is dropped, four signal strengths, the free flash
decode_device_info(recv) ==
    LET r1 == read_string(recv, MAX_NAME_LEN) IN
    IF r1.err # "Ok" THEN Res(r1, <<>>) ELSE
    LET r2 == read_u8s(r1.pkt, 11) IN
    IF r2.err # "Ok" THEN Res(r2, <<>>) ELSE
    LET r3 == read_u32(r2.pkt) IN
    IF r3.err # "Ok" THEN Res(r3, <<>>) ELSE
    Res(RetOk(NoPacket, 0, <<>>),
        [name |-> r1.bytes, bt_addr |-> SubSeq(r2.bytes, 1, 6),
         signal_strength |-> SubSeq(r2.bytes, 8, 11),
         flash |-> U32(r3.val, r3.hi)])

\* Nxt::get_firmware_version, after send_recv: FwVersion { prot, fw }, each
\* (major, minor), read minor first
decode_firmware_version(recv) ==
    LET r1 == read_u8(recv) IN
    IF r1.err # "Ok" THEN Res(r1, <<>>) ELSE
    LET r2 == read_u8(r1.pkt) IN
    IF r2.err # "Ok" THEN Res(r2, <<>>) ELSE
    LET r3 == read_u8(r2.pkt) IN
    IF r3.err # "Ok" THEN Res(r3, <<>>) ELSE
    LET r4 == read_u8(r3.pkt) IN
    IF r4.err # "Ok" THEN Res(r4, <<>>) ELSE
    Res(RetOk(NoPacket, 0, <<>>),
        [prot |-> <<r2.val, r1.val>>, fw |-> <<r4.val, r3.val>>])

\* Nxt::file_open_write, file_open_write_data, file_open_read_linear and
\* file_open_write_linear, after send_recv: FileHandle { handle, len } with
\* the handle read and the len the call was given
decode_file_open_write(recv, len) ==
    LET r1 == read_u8(recv) IN
    IF r1.err # "Ok" THEN Res(r1, <<>>) ELSE
    Res(RetOk(NoPacket, 0, <<>>), [handle |-> r1.val, len |-> len])

\* Nxt::ls_read, after recv: a length byte, that many bytes
decode_ls_read(recv) ==
    LET r1 == read_u8(recv) IN
    IF r1.err # "Ok" THEN Res(r1, <<>>) ELSE
    Res(read_slice(r1.pkt, r1.val), <<>>)

\* Nxt::message_read and Nxt::poll_command, after the reply is in: a byte
\* that is dropped, a length byte, that many bytes
decode_message_read(recv) ==
    LET r1 == read_u8(recv) IN
    IF r1.err # "Ok" THEN Res(r1, <<>>) ELSE
    LET r2 == read_u8(r1.pkt) IN
    IF r2.err # "Ok" THEN Res(r2, <<>>) ELSE
    Res(read_slice(r2.pkt, r2.val), <<>>)

\* Nxt::poll_command_length, after send_recv: the buffer number, dropped,
\* then recv.read_u8()
decode_poll_command_length(recv) ==
    LET r1 == read_u8(recv) IN
    IF r1.err # "Ok" THEN Res(r1, <<>>) ELSE
    Res(read_u8(r1.pkt), <<>>)

\* Nxt::read_io_map, after send_recv: the module id, dropped, a u16 length,
\* that many bytes
decode_read_io_map(recv) ==
    LET r1 == read_u32(recv) IN
    IF r1.err # "Ok" THEN Res(r1, <<>>) ELSE
    LET r2 == read_u16(r1.pkt) IN
    IF r2.err # "Ok" THEN Res(r2, <<>>) ELSE
    Res(read_slice(r2.pkt, r2.val), <<>>)

\* Nxt::write_io_map, after send_recv: the module id, dropped, then
\* recv.read_u16()
decode_write_io_map(recv) ==
    LET r1 == read_u32(recv) IN
    IF r1.err # "Ok" THEN Res(r1, <<>>) ELSE
    Res(read_u16(r1.pkt), <<>>)

\* what each operation does with the packet send_recv returned; a is the
\* argument of the call.  get_display_data reads each chunk with read_io_map.
Decode(op, a, recv) ==
    CASE op = "get_battery_level" -> decode_battery_level(recv)
      [] op = "get_input_values"  -> decode_input_values(recv)
      [] op = "file_find_first"   -> decode_find(recv)
      [] op = "file_find_next"    -> decode_find(recv)
      [] op = "module_find_first" -> decode_module_find(recv)
      [] op = "module_find_next"  -> decode_module_find(recv)
      [] op = "file_open_read"    -> decode_file_open_read(recv)
      [] op = "file_open_append_data" -> decode_file_open_read(recv)
      [] op = "file_read"         -> decode_file_read(recv)
      [] op = "file_write"        -> decode_file_write(recv)
      [] op \in {"file_open_write", "file_open_write_data", "file_open_read_linear",
                 "file_open_write_linear"} -> decode_file_open_write(recv, a.len)
      [] op = "get_firmware_version" -> decode_firmware_version(recv)
      [] op = "get_output_state"  -> decode_output_state(recv)
      [] op = "get_device_info"   -> decode_device_info(recv)
      [] op = "keep_alive"        -> Res(read_u32(recv), <<>>)
      [] op = "ls_get_status"     -> Res(read_u8(recv), <<>>)
      [] op = "ls_read"           -> decode_ls_read(recv)
      [] op = "get_current_program_name" -> Res(read_filename(recv), <<>>)
      [] op \in {"message_read", "poll_command"} -> decode_message_read(recv)
      [] op = "poll_command_length" -> decode_poll_command_length(recv)
      [] op \in {"read_io_map", "get_display_data"} -> decode_read_io_map(recv)
      [] op = "write_io_map"      -> decode_write_io_map(recv)
      [] op = "boot"              -> Res(read_slice(recv, 4), <<>>)
      [] op = "get_bt_addr"       -> Res(read_slice(recv, 6), <<>>)
      [] OTHER                    -> Res(RetOk(NoPacket, 0, <<>>), <<>>)

\* The request packets, as each operation builds them (a codec result: a
\* failed push returns before anything is sent)
build_get_battery_level == RetOk(Packet_new(DirectGetBattLevel), 0, <<>>)
build_stop_program      == RetOk(Packet_new(DirectStopProgram), 0, <<>>)
build_get_input_values(port) ==
    RetOk(push_u8(Packet_new(DirectGetInVals), port), 0, <<>>)
build_file_find_first(pattern) == push_filename(Packet_new(SystemFindfirst), pattern)
\* (mutant) a find_next request that carries no search handle
build_file_find_next_no_handle(handle) ==
    RetOk(push_u8(Packet_new(SystemFindnext), 0), 0, <<>>)
build_file_find_next(handle) ==
    RetOk(push_u8(Packet_new(SystemFindnext), handle.handle), 0, <<>>)
build_module_find_next(handle) ==
    RetOk(push_u8(Packet_new(SystemFindnextmodule), handle.handle), 0, <<>>)
build_file_open_read(name) == push_filename(Packet_new(SystemOpenread), name)
\* (mutant) a file_read that asks with the read opcode, Opcode::SystemRead
build_file_read_with_read_opcode(handle, len) ==
    RetOk(push_u32(push_u8(Packet_new(SystemRead), handle.handle), len), 0, <<>>)
\* Nxt::file_read builds its request with Opcode::SystemOpenread
build_file_read(handle, len) ==
    RetOk(push_u32(push_u8(Packet_new(SystemOpenread), handle.handle), len), 0, <<>>)
build_file_write(handle, data) ==
    RetOk(push_slice(push_u8(Packet_new(SystemWrite), handle.handle), data), 0, <<>>)
build_file_close(handle) ==
    RetOk(push_u8(Packet_new(SystemClose), handle.handle), 0, <<>>)
build_get_firmware_version == RetOk(Packet_new(SystemVersions), 0, <<>>)
build_start_program(name) == push_filename(Packet_new(DirectStartProgram), name)
build_read_io_map(mod_id, offset, count) ==
    RetOk(push_u16(push_u16(push_u32(Packet_new(SystemIomapread), mod_id), offset), count),
          0, <<>>)

-----------------------------------------------------------------------------
(* The engine as a state machine.  A call runs in two steps: Begin builds  *)
(* the packet and runs Nxt::send up to the bulk write; Receive runs        *)
(* Nxt::recv from the bulk read on, and the decoding of the reply.  The    *)
(* brick (the environment) takes requests and queues replies in between.   *)
(* A message in flight carries a ghost tag naming the caller whose request *)
(* it is, or answers; the engine never reads the tag.                      *)

\* the number of messages in flight (requests not yet taken and replies not
\* yet read) beyond which no new call is started
MaxPending == 2

NoTag  == [from |-> "none", gen |-> 0]
NoMsg  == [bytes |-> <<>>, tag |-> NoTag]
NoCall == [op |-> "none", arg |-> 0, pkt |-> NoPacket, check |-> FALSE,
           gen |-> 0, got |-> NoMsg, recv |-> NoPacket, nsend |-> 0, nrecv |-> 0,
           acc |-> <<>>]

\* the ghost tag of caller c's current request: generations are counted
\* modulo MaxPending + 1, so the tags of the messages in flight are distinct
TagOf(c) == [from |-> c, gen |-> cur[c].gen]

Callers == DOMAIN pc

EngineFrame == UNCHANGED <<pkt, ret, stream, bt>>

\* rusb write_bulk: everything written, a short write, or an error
WriteOutcomes == {"ok", "short", "err"}

\* (mutant) a send that does not compare the count written with the length
\* of the packet, and goes on to read the reply after a short write
Begin_short_write_accepted(c, op, arg, built, check, w) ==
    /\ pc[c] \in {"idle", "done"}
    /\ Len(toBrick) + Len(fromBrick) < MaxPending
    /\ EngineFrame
    /\ UNCHANGED <<fromBrick, brick>>
    /\ LET call == [op |-> op, arg |-> arg, pkt |-> built.pkt, check |-> check,
                    gen |-> (cur[c].gen + 1) % (MaxPending + 1),
                    got |-> NoMsg, recv |-> NoPacket, nsend |-> 0, nrecv |-> 0,
                    acc |-> <<>>]
           tag == [from |-> c, gen |-> call.gen]
           s == serialise(built.pkt, BUF_LEN)
       IN  IF built.err # "Ok"
           THEN /\ w = "ok"
                /\ pc' = [pc EXCEPT ![c] = "done"]
                /\ cur' = [cur EXCEPT ![c] = call]
                /\ result' = [result EXCEPT ![c] = ResErr(built.err, built.msg)]
                /\ UNCHANGED toBrick
           ELSE IF s.err # "Ok"
           THEN /\ w = "ok"
                /\ pc' = [pc EXCEPT ![c] = "done"]
                /\ cur' = [cur EXCEPT ![c] = call]
                /\ result' = [result EXCEPT ![c] = ResErr(s.err, s.msg)]
                /\ UNCHANGED toBrick
           ELSE IF w = "ok"
           THEN /\ pc' = [pc EXCEPT ![c] = "sent"]
                /\ cur' = [cur EXCEPT ![c] = [call EXCEPT !.nsend = @ + 1]]
                /\ result' = [result EXCEPT ![c] = NoResult]
                /\ toBrick' = Append(toBrick, [bytes |-> s.bytes, tag |-> tag])
           ELSE IF w = "short"
           THEN /\ pc' = [pc EXCEPT ![c] = "sent"]
                /\ cur' = [cur EXCEPT ![c] = [call EXCEPT !.nsend = @ + 1]]
                /\ result' = [result EXCEPT ![c] = NoResult]
                /\ toBrick' = Append(toBrick,
                       [bytes |-> SubSeq(s.bytes, 1, Len(s.bytes) - 1), tag |-> tag])
           ELSE /\ pc' = [pc EXCEPT ![c] = "done"]
                /\ cur' = [cur EXCEPT ![c] = [call EXCEPT !.nsend = @ + 1]]
                /\ result' = [result EXCEPT ![c] = ResErr("Usb", "")]
                /\ UNCHANGED toBrick

\* The first half of a call.  built is the result of building the request;
\* w is what write_bulk does.  (The ghost variable log is left to the caller.)
Begin(c, op, arg, built, check, w) ==
    /\ pc[c] \in {"idle", "done"}
    /\ Len(toBrick) + Len(fromBrick) < MaxPending
    /\ EngineFrame
    /\ UNCHANGED <<fromBrick, brick>>
    /\ LET call == [op |-> op, arg |-> arg, pkt |-> built.pkt, check |-> check,
                    gen |-> (cur[c].gen + 1) % (MaxPending + 1),
                    got |-> NoMsg, recv |-> NoPacket, nsend |-> 0, nrecv |-> 0,
                    acc |-> <<>>]
           tag == [from |-> c, gen |-> call.gen]
           s == serialise(built.pkt, BUF_LEN)
       IN  IF built.err # "Ok"
           THEN /\ w = "ok"
                /\ pc' = [pc EXCEPT ![c] = "done"]
                /\ cur' = [cur EXCEPT ![c] = call]
                /\ result' = [result EXCEPT ![c] = ResErr(built.err, built.msg)]
                /\ UNCHANGED toBrick
           ELSE IF s.err # "Ok"
           THEN /\ w = "ok"
                /\ pc' = [pc EXCEPT ![c] = "done"]
                /\ cur' = [cur EXCEPT ![c] = call]
                /\ result' = [result EXCEPT ![c] = ResErr(s.err, s.msg)]
                /\ UNCHANGED toBrick
           ELSE IF w = "ok"
           THEN /\ pc' = [pc EXCEPT ![c] = "sent"]
                /\ cur' = [cur EXCEPT ![c] = [call EXCEPT !.nsend = @ + 1]]
                /\ result' = [result EXCEPT ![c] = NoResult]
                /\ toBrick' = Append(toBrick, [bytes |-> s.bytes, tag |-> tag])
           ELSE IF w = "short"
           THEN /\ pc' = [pc EXCEPT ![c] = "done"]
                /\ cur' = [cur EXCEPT ![c] = [call EXCEPT !.nsend = @ + 1]]
                /\ result' = [result EXCEPT ![c] = ResErr("Write", "")]
                /\ toBrick' = Append(toBrick,
                       [bytes |-> SubSeq(s.bytes, 1, Len(s.bytes) - 1), tag |-> tag])
           ELSE /\ pc' = [pc EXCEPT ![c] = "done"]
                /\ cur' = [cur EXCEPT ![c] = [call EXCEPT !.nsend = @ + 1]]
                /\ result' = [result EXCEPT ![c] = ResErr("Usb", "")]
                /\ UNCHANGED toBrick

\* (mutant) a send that reads the reply and returns Ok whatever it holds
Finish_status_ignored(call, r) ==
    IF call.check THEN Res(RetOk(NoPacket, 0, <<>>), <<>>)
    ELSE IF r.err # "Ok" THEN Res(r, <<>>)
    ELSE Decode(call.op, call.arg, r.pkt)

\* (mutant) an engine that rejects input values read for another port
Finish_port_checked(call, r) ==
    IF r.err # "Ok" THEN Res(r, <<>>)
    ELSE IF call.check THEN Res(RetOk(NoPacket, 0, <<>>), <<>>)
    ELSE LET d == Decode(call.op, call.arg, r.pkt) IN
         IF call.op = "get_input_values" /\ d.err = "Ok" /\ d.out.port # call.arg
         THEN ResErr("ReplyMismatch", "")
         ELSE d

\* what the operation returns once Nxt::recv has returned r: send(pkt, true)
\* drops the packet, the send_recv operations decode it
Finish(call, r) ==
    IF r.err # "Ok" THEN Res(r, <<>>)
    ELSE IF call.check THEN Res(RetOk(NoPacket, 0, <<>>), <<>>)
    ELSE Decode(call.op, call.arg, r.pkt)

\* Nxt::get_display_data, the body of the loop once read_io_map has returned
\* res: `?`, the assert_eq on the length of the data, and cur.write_all,
\* which has room for every chunk.  The result holds the data read so far.
display_chunk(call, res) ==
    IF call.op # "get_display_data" \/ res.err # "Ok" THEN res
    ELSE IF Len(res.bytes) # DISPLAY_DATA_CHUNK_SIZE THEN ResErr("Panic", "assert_eq")
    ELSE Res(RetOk(NoPacket, 0, call.acc \o res.bytes), <<>>)

\* what caller c's call returns on the oldest pending reply
RecvResult(c) ==
    display_chunk(cur[c],
                  Finish(cur[c], Nxt_recv(Head(fromBrick).bytes, cur[c].pkt.opcode)))

\* where caller c's call is once its receive has given res: returned,
\* panicked, or, in get_display_data, about to ask for the next chunk
AfterRecv(call, res) ==
    IF res.err = "Panic" THEN "panicked"
    ELSE IF /\ call.op = "get_display_data" /\ res.err = "Ok"
            /\ call.arg + 1 < DISPLAY_NUM_CHUNKS
    THEN "chunk"
    ELSE "done"

\* the packet Nxt::recv hands back on the oldest pending reply (NoPacket when
\* it fails)
RecvPacket(c) == Nxt_recv(Head(fromBrick).bytes, cur[c].pkt.opcode).pkt

\* (mutant) a recv that resynchronises: it reads the oldest reply and discards
\* every other reply pending
Recv_draining(c) ==
    /\ pc[c] = "sent"
    /\ fromBrick # <<>>
    /\ EngineFrame
    /\ UNCHANGED <<toBrick, brick>>
    /\ fromBrick' = <<>>
    /\ pc' = [pc EXCEPT ![c] = "done"]
    /\ cur' = [cur EXCEPT ![c] = [@ EXCEPT !.got = Head(fromBrick),
                                            !.recv = RecvPacket(c),
                                            !.nrecv = @ + 1]]
    /\ result' = [result EXCEPT ![c] = RecvResult(c)]

\* (mutant) a recv that leaves the reply it has read on the channel
Recv_peeking(c) ==
    /\ pc[c] = "sent"
    /\ fromBrick # <<>>
    /\ EngineFrame
    /\ UNCHANGED <<toBrick, brick, fromBrick>>
    /\ pc' = [pc EXCEPT ![c] = "done"]
    /\ cur' = [cur EXCEPT ![c] = [@ EXCEPT !.got = Head(fromBrick),
                                            !.recv = RecvPacket(c),
                                            !.nrecv = @ + 1]]
    /\ result' = [result EXCEPT ![c] = RecvResult(c)]

\* (mutant) an engine that reads the next reply when one fails its checks
Recv_retrying(c) ==
    /\ pc[c] = "sent"
    /\ fromBrick # <<>>
    /\ EngineFrame
    /\ UNCHANGED <<toBrick, brick>>
    /\ fromBrick' = Tail(fromBrick)
    /\ cur' = [cur EXCEPT ![c] = [@ EXCEPT !.got = Head(fromBrick),
                                            !.recv = RecvPacket(c),
                                            !.nrecv = @ + 1]]
    /\ IF RecvResult(c).err = "Ok"
       THEN /\ pc' = [pc EXCEPT ![c] = "done"]
            /\ result' = [result EXCEPT ![c] = RecvResult(c)]
       ELSE UNCHANGED <<pc, result>>

\* The second half of a call: read_bulk returns the oldest pending reply.
\* (The ghost variable log is left to the caller.)
Recv(c) ==
    /\ pc[c] = "sent"
    /\ fromBrick # <<>>
    /\ EngineFrame
    /\ UNCHANGED <<toBrick, brick>>
    /\ fromBrick' = Tail(fromBrick)
    /\ LET res == RecvResult(c)
           to == AfterRecv(cur[c], res)
       IN  /\ pc' = [pc EXCEPT ![c] = to]
           /\ cur' = [cur EXCEPT ![c] =
                         [@ EXCEPT !.got = Head(fromBrick),
                                   !.recv = RecvPacket(c),
                                   !.nrecv = @ + 1,
                                   !.acc = IF to = "chunk" THEN res.bytes ELSE @]]
           /\ result' = [result EXCEPT ![c] = IF to = "chunk" THEN NoResult ELSE res]

Receive(c) == Recv(c) /\ UNCHANGED log

\* read_bulk times out: no reply is pending
RecvTimeout(c) ==
    /\ pc[c] = "sent"
    /\ fromBrick = <<>>
    /\ EngineFrame
    /\ UNCHANGED <<toBrick, fromBrick, brick, log>>
    /\ pc' = [pc EXCEPT ![c] = "done"]
    /\ cur' = [cur EXCEPT ![c] = [@ EXCEPT !.nrecv = @ + 1]]
    /\ result' = [result EXCEPT ![c] = ResErr("Usb", "")]

\* The operations
GetBatteryLevel(c, w) ==
    Begin(c, "get_battery_level", 0, build_get_battery_level, FALSE, w)
    /\ UNCHANGED log
StopProgram(c, w) ==
    Begin(c, "stop_program", 0, build_stop_program, TRUE, w)
    /\ UNCHANGED log
GetInputValues(c, port, w) ==
    Begin(c, "get_input_values", port, build_get_input_values(port), FALSE, w)
    /\ UNCHANGED log
GetFirmwareVersion(c, w) ==
    Begin(c, "get_firmware_version", 0, build_get_firmware_version, FALSE, w)
    /\ UNCHANGED log
StartProgram(c, name, w) ==
    Begin(c, "start_program", name, build_start_program(name), TRUE, w)
    /\ UNCHANGED log
ReadIoMap(c, mod_id, offset, count, w) ==
    Begin(c, "read_io_map", [mod_id |-> mod_id, offset |-> offset, count |-> count],
          build_read_io_map(mod_id, offset, count), FALSE, w)
    /\ UNCHANGED log

\* the read_io_map request of get_display_data for the chunk chunk_idx
display_request(chunk_idx) ==
    build_read_io_map(U32(MOD_DISPLAY % 65536, MOD_DISPLAY \div 65536),
                      DISPLAY_DATA_OFFSET + chunk_idx * DISPLAY_DATA_CHUNK_SIZE,
                      DISPLAY_DATA_CHUNK_SIZE)

\* Nxt::get_display_data up to the first bulk write: the call's arg is the
\* chunk_idx of the loop
GetDisplayData(c, w) ==
    Begin(c, "get_display_data", 0, display_request(0), FALSE, w)
    /\ UNCHANGED log

\* Nxt::get_display_data, the next turn of the loop: Nxt::send with the
\* read_io_map request for the next chunk, within the same call
GetDisplayDataNext(c, w) ==
    /\ pc[c] = "chunk"
    /\ Len(toBrick) + Len(fromBrick) < MaxPending
    /\ EngineFrame
    /\ UNCHANGED <<fromBrick, brick, log>>
    /\ LET built == display_request(cur[c].arg + 1)
           call == [op |-> cur[c].op, arg |-> cur[c].arg + 1, pkt |-> built.pkt,
                    check |-> cur[c].check,
                    gen |-> (cur[c].gen + 1) % (MaxPending + 1),
                    got |-> NoMsg, recv |-> NoPacket,
                    nsend |-> cur[c].nsend, nrecv |-> cur[c].nrecv,
                    acc |-> cur[c].acc]
           tag == [from |-> c, gen |-> call.gen]
           s == serialise(built.pkt, BUF_LEN)
       IN  IF s.err # "Ok"
           THEN /\ w = "ok"
                /\ pc' = [pc EXCEPT ![c] = "done"]
                /\ cur' = [cur EXCEPT ![c] = call]
                /\ result' = [result EXCEPT ![c] = ResErr(s.err, s.msg)]
                /\ UNCHANGED toBrick
           ELSE IF w = "ok"
           THEN /\ pc' = [pc EXCEPT ![c] = "sent"]
                /\ cur' = [cur EXCEPT ![c] = [call EXCEPT !.nsend = @ + 1]]
                /\ result' = [result EXCEPT ![c] = NoResult]
                /\ toBrick' = Append(toBrick, [bytes |-> s.bytes, tag |-> tag])
           ELSE IF w = "short"
           THEN /\ pc' = [pc EXCEPT ![c] = "done"]
                /\ cur' = [cur EXCEPT ![c] = [call EXCEPT !.nsend = @ + 1]]
                /\ result' = [result EXCEPT ![c] = ResErr("Write", "")]
                /\ toBrick' = Append(toBrick,
                       [bytes |-> SubSeq(s.bytes, 1, Len(s.bytes) - 1), tag |-> tag])
           ELSE /\ pc' = [pc EXCEPT ![c] = "done"]
                /\ cur' = [cur EXCEPT ![c] = [call EXCEPT !.nsend = @ + 1]]
                /\ result' = [result EXCEPT ![c] = ResErr("Usb", "")]
                /\ UNCHANGED toBrick

-----------------------------------------------------------------------------
(* Spec: one caller; the brick may answer a request with any reply.        *)

\* the reply to a read_io_map request for the display module that carries data
IoMapReadReply(data) ==
    <<PacketType_Reply, SystemIomapread, DeviceError_None>>
        \o le_bytes_u32(U32(MOD_DISPLAY % 65536, MOD_DISPLAY \div 65536))
        \o le_bytes_u16(Len(data)) \o data

ReplyPayloads == {<<>>, <<11>>, <<11, 0>>, <<52, 18>>, <<255, 255>>}
AnyReplies ==
    {<<PacketType_Reply, o, st>> \o pl :
        o \in {DirectGetBattLevel, DirectStopProgram},
        st \in {0, 135, 153},
        pl \in ReplyPayloads}
    \cup {<<>>, <<PacketType_Reply>>, <<PacketType_Reply, DirectGetBattLevel>>,
          <<PacketType_Reply, DirectStopProgram>>,
          <<3, DirectGetBattLevel, 0>>, <<PacketType_Reply, 20, 0>>,
          <<PacketType_Direct, DirectGetBattLevel, 0, 11, 0>>}
    \cup {<<PacketType_Reply, SystemVersions, DeviceError_None, 124, 1, 28, 1>>,
          <<PacketType_Reply, SystemVersions, DeviceError_None, 124, 1, 28>>,
          IoMapReadReply(Zeros(DISPLAY_DATA_CHUNK_SIZE)),
          IoMapReadReply(Zeros(DISPLAY_DATA_CHUNK_SIZE - 1)),
          <<PacketType_Reply, SystemIomapread, DeviceError_FileNotFound>>}

\* the brick takes the oldest request and queues some reply to it
BrickAny ==
    /\ toBrick # <<>>
    /\ EngineFrame
    /\ UNCHANGED <<pc, cur, result, brick, log>>
    /\ toBrick' = Tail(toBrick)
    /\ \E reply \in AnyReplies :
          fromBrick' = Append(fromBrick, [bytes |-> reply, tag |-> Head(toBrick).tag])

\* the brick takes the oldest request and does not answer
BrickIgnore ==
    /\ toBrick # <<>>
    /\ EngineFrame
    /\ UNCHANGED <<pc, cur, result, fromBrick, brick, log>>
    /\ toBrick' = Tail(toBrick)

EngineInit(callers) ==
    /\ pc = [c \in callers |-> "idle"]
    /\ cur = [c \in callers |-> NoCall]
    /\ result = [c \in callers |-> NoResult]
    /\ toBrick = <<>>
    /\ fromBrick = <<>>

Init ==
    /\ EngineInit({"A"})
    /\ brick = [mode |-> "any"]
    /\ log = <<>>
    /\ CodecOff /\ StreamOff

Next ==
    \/ \E c \in Callers, w \in WriteOutcomes : GetBatteryLevel(c, w)
    \/ \E c \in Callers, w \in WriteOutcomes : StopProgram(c, w)
    \/ \E c \in Callers, w \in WriteOutcomes : GetFirmwareVersion(c, w)
    \/ \E c \in Callers, name \in {A_FILE, NameOfLen(FILENAME_LEN)}, w \in WriteOutcomes :
          StartProgram(c, name, w)
    \/ \E c \in Callers, w \in WriteOutcomes : GetDisplayData(c, w)
    \/ \E c \in Callers, w \in WriteOutcomes : GetDisplayDataNext(c, w)
    \/ \E c \in Callers : Receive(c)
    \/ \E c \in Callers : RecvTimeout(c)
    \/ BrickAny
    \/ BrickIgnore

Spec == Init /\ [][Next]_vars

-----------------------------------------------------------------------------
(* SpecLs: examples/ls.rs against a brick that keeps a directory.  The     *)
(* brick answers file_find_first with the first entry and a search handle, *)
(* file_find_next with the next entry, and with a device error once the    *)
(* entries are exhausted (or the handle is not the one it gave out).       *)

\* the largest directory tried
MaxEntries == 3

Files == {[name |-> A_FILE, size |-> U32(9, 0)], [name |-> TEST, size |-> U32(0, 1)]}
Directories ==
    UNION {[1..n -> Files] : n \in 0..MaxEntries}
HandleSet == {1, 2}
DeviceError_NoMoreFiles   == 131
DeviceError_IllegalHandle == 147

\* a reply to a find request, in the layout decode_find reads:
\* status, handle, 20-byte name field, 4-byte little-endian size
FindReply(opcode, status, handle, name, size) ==
    <<PacketType_Reply, opcode, status, handle>>
        \o name \o Zeros(FILENAME_LEN - Len(name)) \o le_bytes_u32(size)
FindFailure(opcode, status) == FindReply(opcode, status, 0, <<>>, U32(0, 0))

\* the brick serves the oldest request
BrickFind ==
    /\ toBrick # <<>>
    /\ EngineFrame
    /\ UNCHANGED <<pc, cur, result, log>>
    /\ toBrick' = Tail(toBrick)
    /\ LET req == Head(toBrick)
           opcode == req.bytes[2]
           more == brick.pos < Len(brick.dir)
           known == opcode = SystemFindfirst
                    \/ (brick.handle # 0 /\ req.bytes[3] = brick.handle)
       IN  IF ~known
           THEN /\ brick' = brick
                /\ fromBrick' = Append(fromBrick,
                       [bytes |-> FindFailure(opcode, DeviceError_IllegalHandle),
                        tag |-> req.tag])
           ELSE IF (opcode = SystemFindfirst /\ Len(brick.dir) > 0)
                   \/ (opcode = SystemFindnext /\ more)
           THEN \E h \in HandleSet :
                  LET n == IF opcode = SystemFindfirst THEN 1 ELSE brick.pos + 1
                      f == brick.dir[n]
                  IN  /\ brick' = [brick EXCEPT !.pos = n, !.handle = h]
                      /\ fromBrick' = Append(fromBrick,
                             [bytes |-> FindReply(opcode, DeviceError_None, h, f.name, f.size),
                              tag |-> req.tag])
           ELSE \E st \in {DeviceError_FileNotFound, DeviceError_NoMoreFiles} :
                  /\ brick' = [brick EXCEPT !.handle = 0]
                  /\ fromBrick' = Append(fromBrick,
                         [bytes |-> FindFailure(opcode, st), tag |-> req.tag])

\* ls.rs line 9: nxt.file_find_first(".")
LsFindFirst ==
    /\ pc["A"] = "idle"
    /\ Begin("A", "file_find_first", 0, build_file_find_first(<<46>>), FALSE, "ok")
    /\ log' = [log EXCEPT !.requests = @ + 1]

\* ls.rs line 13, reached when the previous find returned Ok
LsFindNext ==
    /\ pc["A"] = "done"
    /\ result["A"].err = "Ok"
    /\ ~log.exited
    /\ Begin("A", "file_find_next", result["A"].out.handle,
             build_file_find_next(result["A"].out), FALSE, "ok")
    /\ log' = [log EXCEPT !.requests = @ + 1]

\* the `?` of ls.rs lines 9 and 13: the first error ends main
LsExit ==
    /\ pc["A"] = "done"
    /\ result["A"].err # "Ok"
    /\ ~log.exited
    /\ log' = [log EXCEPT !.exited = TRUE]
    /\ EngineFrame
    /\ UNCHANGED <<pc, cur, result, toBrick, fromBrick, brick>>

\* the reply arrives; the ghost counters record how the call ended
LsReceive ==
    /\ Recv("A")
    /\ log' = IF RecvResult("A").err = "Ok"
              THEN [log EXCEPT !.matches = Append(@, RecvResult("A").out)]
              ELSE [log EXCEPT !.errors = Append(@, RecvResult("A").err)]

LsInit ==
    /\ EngineInit({"A"})
    /\ \E d \in Directories : brick = [dir |-> d, pos |-> 0, handle |-> 0]
    /\ log = [requests |-> 0, matches |-> <<>>, errors |-> <<>>, exited |-> FALSE]
    /\ CodecOff /\ StreamOff

LsNext ==
    \/ LsFindFirst
    \/ LsFindNext
    \/ LsReceive
    \/ LsExit
    \/ BrickFind

SpecLs == LsInit /\ [][LsNext]_vars

-----------------------------------------------------------------------------
(* SpecShared: two callers on one connection, against a brick that answers *)
(* every request correctly and in order.  No transport call fails.  Each   *)
(* Begin and each Receive is one step: the transport's lock is held for    *)
(* one send or one recv and released in between.                           *)

BatteryLevels == {11, 7800}

\* what the sensor on a port reads: the nine fields of InputValues
SensorReading(port) ==
    [port |-> port, valid |-> TRUE, calibrated |-> FALSE,
     sensor_type |-> port + 1, sensor_mode |-> 32 * port,
     raw_value |-> 256 + port, normalised_value |-> 512 + port,
     scaled_value |-> 0 - 1 - port, calibrated_value |-> port]

\* the reply to get_input_values, in the layout decode_input_values reads
InputValuesReply(v) ==
    <<PacketType_Reply, DirectGetInVals, DeviceError_None, v.port,
      IF v.valid THEN 1 ELSE 0, IF v.calibrated THEN 1 ELSE 0,
      v.sensor_type, v.sensor_mode>>
        \o le_bytes_u16(v.raw_value) \o le_bytes_u16(v.normalised_value)
        \o le_bytes_u16((v.scaled_value + 65536) % 65536)
        \o le_bytes_u16((v.calibrated_value + 65536) % 65536)

\* the brick answers the oldest request
BrickFaithful ==
    /\ toBrick # <<>>
    /\ EngineFrame
    /\ UNCHANGED <<pc, cur, result, brick, log>>
    /\ toBrick' = Tail(toBrick)
    /\ LET req == Head(toBrick)
           opcode == req.bytes[2]
       IN  IF opcode = DirectGetInVals
           THEN fromBrick' = Append(fromBrick,
                    [bytes |-> InputValuesReply(SensorReading(req.bytes[3])),
                     tag |-> req.tag])
           ELSE \E mv \in BatteryLevels :
                  fromBrick' = Append(fromBrick,
                      [bytes |-> <<PacketType_Reply, opcode, DeviceError_None>>
                                     \o le_bytes_u16(mv),
                       tag |-> req.tag])

SharedInit ==
    /\ EngineInit({"A", "B"})
    /\ brick = [mode |-> "faithful"]
    /\ log = <<>>
    /\ CodecOff /\ StreamOff

SharedNext ==
    \/ \E c \in Callers : GetBatteryLevel(c, "ok")
    \/ \E c \in Callers, port \in InPortSet : GetInputValues(c, port, "ok")
    \/ \E c \in Callers : Receive(c)
    \/ BrickFaithful

SpecShared == SharedInit /\ [][SharedNext]_vars

-----------------------------------------------------------------------------
(* SpecSerial: the two callers of SpecShared with their exchanges          *)
(* serialised by a lock around the whole operation (a call starts only     *)
(* when no other call is between its send and its recv), the brick         *)
(* answering every request once and no transport call failing.             *)

NoneInFlight == \A d \in Callers : pc[d] # "sent"

SerialNext ==
    \/ \E c \in Callers : NoneInFlight /\ GetBatteryLevel(c, "ok")
    \/ \E c \in Callers : NoneInFlight /\ StopProgram(c, "ok")
    \/ \E c \in Callers, port \in InPortSet :
          NoneInFlight /\ GetInputValues(c, port, "ok")
    \/ \E c \in Callers : Receive(c)
    \/ BrickFaithful

SpecSerial == SharedInit /\ [][SerialNext]_vars

-----------------------------------------------------------------------------
(* SpecLate: one caller against a brick that answers every request once    *)
(* but may do so after the caller's read has timed out; every write        *)
(* succeeds.                                                               *)

LateNext ==
    \/ \E c \in Callers : GetBatteryLevel(c, "ok")
    \/ \E c \in Callers : StopProgram(c, "ok")
    \/ \E c \in Callers : Receive(c)
    \/ \E c \in Callers : RecvTimeout(c)
    \/ BrickFaithful

SpecLate == Init /\ [][LateNext]_vars

-----------------------------------------------------------------------------
(* SpecStream: socket/bluetooth.rs, the length-prefixed stream transport.  *)
(* One connection, its RwLock, and tasks that call send and recv on it.    *)
(* The peer returns every byte it is sent, in order, so that what send     *)
(* writes is what recv reads.  stream.out holds the bytes written and not  *)
(* yet carried over, stream.inc the bytes recv can read, stream.closed     *)
(* that the reading side has met the end of the stream; stream.sent and    *)
(* stream.rcvd are ghost: the messages passed to send, in the order the    *)
(* lock was taken, and the results recv returned.  stream.failed records   *)
(* that a write or a read failed or a write cut the prefix short,          *)
(* stream.short that a write took less than the whole payload and send     *)
(* returned Ok with that count.                                            *)

\* the number of send calls tried
MaxSent == 2
\* the number of recv calls tried
MaxRecv == 2

Tasks == {"t1", "t2"}
Msgs == {<<>>, <<7>>, <<3, 0, 9>>}
RecvBufLens == {2, BUF_LEN}
U16_MAX == 65535

NoTask == [pc |-> "idle", msg |-> <<>>, buflen |-> 0, n |-> 0,
           ret |-> RetErr(NoPacket, "None", "")]

StreamFrame == UNCHANGED <<pkt, ret, pc, cur, result, toBrick, fromBrick, brick, log>>

\* a call returns r: the guard is dropped, the task is free for its next call
Return(t, r) ==
    [lock |-> "none", task |-> [bt.task EXCEPT ![t] = [@ EXCEPT !.pc = "idle", !.ret = r]]]

\* send, lines 95-96: the length must fit a u16; then the lock is taken
BtSend(t, msg) ==
    /\ bt.task[t].pc = "idle"
    /\ Len(stream.sent) < MaxSent
    /\ StreamFrame
    /\ IF Len(msg) > U16_MAX
       THEN /\ bt' = [bt EXCEPT !.task[t].ret = RetErr(NoPacket, "IntOutOfRange", "")]
            /\ UNCHANGED stream
       ELSE /\ bt.lock = "none"
            /\ bt' = [lock |-> t,
                      task |-> [bt.task EXCEPT ![t] =
                                   [NoTask EXCEPT !.pc = "s_prefix", !.msg = msg]]]
            /\ stream' = [stream EXCEPT !.sent = Append(@, msg)]

\* (mutant) a send that takes the lock for each write separately: the guard is
\* dropped once the prefix is written
BtSendPrefix_unlocking(t, w) ==
    /\ bt.task[t].pc = "s_prefix"
    /\ StreamFrame
    /\ LET prefix == le_bytes_u16(Len(bt.task[t].msg)) IN
       CASE w = "ok" ->
              /\ stream' = [stream EXCEPT !.out = @ \o prefix]
              /\ bt' = [lock |-> "none",
                        task |-> [bt.task EXCEPT ![t] = [@ EXCEPT !.pc = "s_payload"]]]
         [] w = "short" ->
              /\ stream' = [stream EXCEPT !.out = @ \o <<prefix[1]>>, !.failed = TRUE]
              /\ bt' = [lock |-> "none",
                        task |-> [bt.task EXCEPT ![t] = [@ EXCEPT !.pc = "s_payload"]]]
         [] w = "panic" ->
              /\ stream' = [stream EXCEPT !.out = @ \o <<prefix[1]>>, !.failed = TRUE]
              /\ bt' = [lock |-> "none",
                        task |-> [bt.task EXCEPT ![t] = [@ EXCEPT !.pc = "panicked"]]]
         [] w = "err" ->
              /\ stream' = [stream EXCEPT !.failed = TRUE]
              /\ bt' = Return(t, RetErr(NoPacket, "Io", ""))

\* send, lines 97-98: lock.write(prefix).  The stream takes both bytes, or
\* one (debug_assert_eq panics in a debug build and is absent from a release
\* build), or fails.
BtSendPrefix(t, w) ==
    /\ bt.task[t].pc = "s_prefix"
    /\ StreamFrame
    /\ LET prefix == le_bytes_u16(Len(bt.task[t].msg)) IN
       CASE w = "ok" ->
              /\ stream' = [stream EXCEPT !.out = @ \o prefix]
              /\ bt' = [bt EXCEPT !.task[t].pc = "s_payload"]
         [] w = "short" ->
              /\ stream' = [stream EXCEPT !.out = @ \o <<prefix[1]>>, !.failed = TRUE]
              /\ bt' = [bt EXCEPT !.task[t].pc = "s_payload"]
         [] w = "panic" ->
              /\ stream' = [stream EXCEPT !.out = @ \o <<prefix[1]>>, !.failed = TRUE]
              /\ bt' = [lock |-> "none",
                        task |-> [bt.task EXCEPT ![t] = [@ EXCEPT !.pc = "panicked"]]]
         [] w = "err" ->
              /\ stream' = [stream EXCEPT !.failed = TRUE]
              /\ bt' = Return(t, RetErr(NoPacket, "Io", ""))

\* send, line 99: Ok(lock.write(data)?), the count write returned
BtSendPayload(t, w) ==
    /\ bt.task[t].pc = "s_payload"
    /\ StreamFrame
    /\ LET msg == bt.task[t].msg IN
       CASE w = "ok" ->
              /\ stream' = [stream EXCEPT !.out = @ \o msg]
              /\ bt' = Return(t, RetOk(NoPacket, Len(msg), <<>>))
         [] w = "short" ->
              /\ Len(msg) > 0
              /\ stream' = [stream EXCEPT !.out = @ \o SubSeq(msg, 1, Len(msg) - 1),
                                          !.short = TRUE]
              /\ bt' = Return(t, RetOk(NoPacket, Len(msg) - 1, <<>>))
         [] w = "err" ->
              /\ stream' = [stream EXCEPT !.failed = TRUE]
              /\ bt' = Return(t, RetErr(NoPacket, "Io", ""))

\* recv, lines 104-105: the lock is taken
BtRecv(t, buflen) ==
    /\ bt.task[t].pc = "idle"
    /\ bt.lock = "none"
    /\ Len(stream.rcvd) < MaxRecv
    /\ StreamFrame
    /\ UNCHANGED stream
    /\ bt' = [lock |-> t,
              task |-> [bt.task EXCEPT ![t] =
                           [NoTask EXCEPT !.pc = "r_prefix", !.buflen = buflen]]]

\* tokio read_exact: the bytes asked for, a read error, or the end of the
\* stream before they have all come
ReadOutcomes == {"ok", "err", "eof"}

\* recv, line 110: u16::from_le_bytes(len_prefix)
recv_prefix(b0, b1) == from_le_bytes_u16(b0, b1)

\* recv, lines 106 and 114: read_exact fails and the `?` returns Err(Io), the
\* guard being dropped.  On a read error ("err") it has taken k bytes, fewer
\* than the want it was asked for; at the end of the stream ("eof") it has
\* taken every byte there was, and that was fewer than want.
BtRecvFail(t, want, r) ==
    LET avail == IF Len(stream.inc) < want THEN Len(stream.inc) ELSE want - 1
        e == RetErr(NoPacket, "Io", IF r = "eof" THEN "UnexpectedEof" ELSE "")
    IN  /\ r = "eof" => Len(stream.inc) < want
        /\ \E k \in (IF r = "eof" THEN {Len(stream.inc)} ELSE 0..avail) :
              /\ bt' = Return(t, e)
              /\ stream' = [stream EXCEPT !.inc = SubSeq(@, k + 1, Len(@)),
                                          !.rcvd = Append(@, e),
                                          !.failed = TRUE,
                                          !.closed = @ \/ r = "eof"]

\* (mutant) a recv that fills the buffer when the declared length exceeds it
BtRecvPrefix_truncating(t, r) ==
    /\ bt.task[t].pc = "r_prefix"
    /\ StreamFrame
    /\ IF r # "ok" THEN BtRecvFail(t, 2, r) ELSE
       /\ Len(stream.inc) >= 2
       /\ LET n == recv_prefix(stream.inc[1], stream.inc[2])
              m == IF bt.task[t].buflen < n THEN bt.task[t].buflen ELSE n
          IN  /\ bt' = [bt EXCEPT !.task[t].pc = "r_payload", !.task[t].n = m]
              /\ stream' = [stream EXCEPT !.inc = SubSeq(@, 3, Len(@))]

\* (mutant) a recv that, on a declared length exceeding the buffer, also
\* takes the message's payload off the stream before it fails
BtRecvPrefix_skipping(t, r) ==
    /\ bt.task[t].pc = "r_prefix"
    /\ StreamFrame
    /\ IF r # "ok" THEN BtRecvFail(t, 2, r) ELSE
       /\ Len(stream.inc) >= 2
       /\ LET n == recv_prefix(stream.inc[1], stream.inc[2])
              e == RetErr(NoPacket, "Parse", "Data too long for buffer")
          IN  IF bt.task[t].buflen < n
              THEN /\ Len(stream.inc) >= 2 + n
                   /\ bt' = Return(t, e)
                   /\ stream' = [stream EXCEPT !.inc = SubSeq(@, 3 + n, Len(@)),
                                               !.rcvd = Append(@, e)]
              ELSE /\ bt' = [bt EXCEPT !.task[t].pc = "r_payload", !.task[t].n = n]
                   /\ stream' = [stream EXCEPT !.inc = SubSeq(@, 3, Len(@))]

\* recv, lines 106-113: read_exact of the two prefix bytes, which returns
\* once both are there or fails; then the comparison with the buffer's length
BtRecvPrefix(t, r) ==
    /\ bt.task[t].pc = "r_prefix"
    /\ StreamFrame
    /\ IF r # "ok" THEN BtRecvFail(t, 2, r) ELSE
       /\ Len(stream.inc) >= 2
       /\ LET n == recv_prefix(stream.inc[1], stream.inc[2])
              e == RetErr(NoPacket, "Parse", "Data too long for buffer")
          IN  IF bt.task[t].buflen < n
              THEN /\ bt' = Return(t, e)
                   /\ stream' = [stream EXCEPT !.inc = SubSeq(@, 3, Len(@)),
                                               !.rcvd = Append(@, e)]
              ELSE /\ bt' = [bt EXCEPT !.task[t].pc = "r_payload", !.task[t].n = n]
                   /\ stream' = [stream EXCEPT !.inc = SubSeq(@, 3, Len(@))]

\* recv, lines 114-118: read_exact of the declared number of bytes, which
\* returns once they are there or fails
BtRecvPayload(t, r) ==
    /\ bt.task[t].pc = "r_payload"
    /\ StreamFrame
    /\ IF r # "ok" THEN BtRecvFail(t, bt.task[t].n, r) ELSE
       /\ Len(stream.inc) >= bt.task[t].n
       /\ LET n == bt.task[t].n
              ok == RetOk(NoPacket, 0, SubSeq(stream.inc, 1, n))
          IN  /\ bt' = Return(t, ok)
              /\ stream' = [stream EXCEPT !.inc = SubSeq(@, n + 1, Len(@)),
                                          !.rcvd = Append(@, ok)]

\* the stream carries the bytes written so far over to the reading side
Relay ==
    /\ stream.out # <<>>
    /\ ~stream.closed
    /\ StreamFrame
    /\ UNCHANGED bt
    /\ stream' = [stream EXCEPT !.out = <<>>, !.inc = @ \o stream.out]

StreamInit ==
    /\ stream = [out |-> <<>>, inc |-> <<>>, sent |-> <<>>, rcvd |-> <<>>,
                 failed |-> FALSE, short |-> FALSE, closed |-> FALSE]
    /\ bt = [lock |-> "none", task |-> [t \in Tasks |-> NoTask]]
    /\ EngineOff /\ CodecOff

StreamNext ==
    \/ \E t \in Tasks, msg \in Msgs : BtSend(t, msg)
    \/ \E t \in Tasks, w \in {"ok", "short", "panic", "err"} : BtSendPrefix(t, w)
    \/ \E t \in Tasks, w \in {"ok", "short", "err"} : BtSendPayload(t, w)
    \/ \E t \in Tasks, buflen \in RecvBufLens : BtRecv(t, buflen)
    \/ \E t \in Tasks, r \in ReadOutcomes : BtRecvPrefix(t, r)
    \/ \E t \in Tasks, r \in ReadOutcomes : BtRecvPayload(t, r)
    \/ Relay

SpecStream == StreamInit /\ [][StreamNext]_vars

-----------------------------------------------------------------------------
(* SpecMsg: Nxt::message_write, one caller, against the brick of Spec.     *)

\* lib.rs: pub const MAX_MESSAGE_LEN / MAX_INBOX_ID
MAX_MESSAGE_LEN    == 58
MAX_INBOX_ID       == 19

\* the inboxes and the messages offered to message_write
TestInboxes == {0, MAX_INBOX_ID, MAX_INBOX_ID + 1}
MessageOfLen(n) == [i \in 1..n |-> 1 + (i % 250)]
TestMessages ==
    {MessageOfLen(n) : n \in {0, MAX_MESSAGE_LEN, MAX_MESSAGE_LEN + 1, 255}}

\* (mutant) message_write without the check of the message's length: the
\* length byte is message.len() as u8 + 1, wrapping
build_message_write_unchecked(inbox, message) ==
    IF inbox > MAX_INBOX_ID
    THEN RetErr(NoPacket, "Serialise", "Invalid mailbox ID") ELSE
    LET p1 == push_u8(Packet_new(DirectMessageWrite), inbox)
        p2 == push_u8(p1, ((Len(message) % 256) + 1) % 256)
        p3 == push_slice(p2, message)
    IN  RetOk(push_u8(p3, 0), 0, <<>>)

\* Nxt::message_write up to self.send: the two checks, then the packet
build_message_write(inbox, message) ==
    IF inbox > MAX_INBOX_ID
    THEN RetErr(NoPacket, "Serialise", "Invalid mailbox ID") ELSE
    IF Len(message) > MAX_MESSAGE_LEN
    THEN RetErr(NoPacket, "Serialise", "Message too long (max 58 bytes)") ELSE
    LET p1 == push_u8(Packet_new(DirectMessageWrite), inbox)
        p2 == push_u8(p1, ((Len(message) % 256) + 1) % 256)
        p3 == push_slice(p2, message)
    IN  RetOk(push_u8(p3, 0), 0, <<>>)

MessageWrite(c, inbox, message, w) ==
    Begin(c, "message_write", [inbox |-> inbox, message |-> message],
          build_message_write(inbox, message), TRUE, w)
    /\ UNCHANGED log

MsgNext ==
    \/ \E c \in Callers, inbox \in TestInboxes, message \in TestMessages,
          w \in WriteOutcomes : MessageWrite(c, inbox, message, w)
    \/ \E c \in Callers : Receive(c)
    \/ \E c \in Callers : RecvTimeout(c)
    \/ BrickAny
    \/ BrickIgnore

SpecMsg == Init /\ [][MsgNext]_vars

-----------------------------------------------------------------------------
(* SpecFile: the file operations and the find-next operations of lib.rs,   *)
(* one caller.  The brick answers a request with a reply of the request's  *)
(* opcode, carrying a failure status or one of the payloads the operations *)
(* read, or does not answer.  Every write is complete.  log is ghost: it   *)
(* records whether the call in progress was made by the iteration loop,    *)
(* with the handle the previous find call returned.                        *)

TestFileHandles == {[handle |-> h, len |-> U32(3, 0)] : h \in {1, 2}}
TestFindHandles == {[handle |-> h, name |-> A_FILE, len |-> U32(9, 0)] : h \in {1, 2}}
TestModuleHandles ==
    {[handle |-> h, name |-> TEST, id |-> U32(1, 0), len |-> U32(0, 0), iomap_len |-> 2] :
        h \in {1, 2}}
\* data for file_write: none, the most a packet holds, and one byte more
TestData == {<<>>, MessageOfLen(BUF_LEN - 3), MessageOfLen(BUF_LEN - 2)}
TestReadLens == {U32(3, 0)}

FileOpenRead(c, name) ==
    /\ Begin(c, "file_open_read", 0, build_file_open_read(name), FALSE, "ok")
    /\ log' = [threaded |-> FALSE]
FileRead(c, handle, len) ==
    /\ Begin(c, "file_read", handle.handle, build_file_read(handle, len), FALSE, "ok")
    /\ log' = [threaded |-> FALSE]
FileWrite(c, handle, data) ==
    /\ Begin(c, "file_write", handle.handle, build_file_write(handle, data), FALSE, "ok")
    /\ log' = [threaded |-> FALSE]
FileClose(c, handle) ==
    /\ Begin(c, "file_close", handle.handle, build_file_close(handle), TRUE, "ok")
    /\ log' = [threaded |-> FALSE]
FileFindNext(c, handle) ==
    /\ Begin(c, "file_find_next", handle.handle, build_file_find_next(handle), FALSE, "ok")
    /\ log' = [threaded |-> FALSE]
ModuleFindNext(c, handle) ==
    /\ Begin(c, "module_find_next", handle.handle, build_module_find_next(handle),
             FALSE, "ok")
    /\ log' = [threaded |-> FALSE]

\* (mutant) a loop that calls find-next with the handle it sent before,
\* not with the one the previous call returned
FindNextLoop_stale_handle(c) ==
    /\ pc[c] = "done"
    /\ result[c].err = "Ok"
    /\ cur[c].op \in {"file_find_next", "module_find_next"}
    /\ LET stale == [result[c].out EXCEPT !.handle = cur[c].arg] IN
       IF cur[c].op = "file_find_next"
       THEN Begin(c, "file_find_next", stale.handle,
                  build_file_find_next(stale), FALSE, "ok")
       ELSE Begin(c, "module_find_next", stale.handle,
                  build_module_find_next(stale), FALSE, "ok")
    /\ log' = [threaded |-> TRUE]

\* the loop of ls.rs, `handle = nxt.file_find_next(&handle)?`, and the same
\* loop over modules: the next call is made with the value the previous
\* call returned
FindNextLoop(c) ==
    /\ pc[c] = "done"
    /\ result[c].err = "Ok"
    /\ cur[c].op \in {"file_find_next", "module_find_next"}
    /\ IF cur[c].op = "file_find_next"
       THEN Begin(c, "file_find_next", result[c].out.handle,
                  build_file_find_next(result[c].out), FALSE, "ok")
       ELSE Begin(c, "module_find_next", result[c].out.handle,
                  build_module_find_next(result[c].out), FALSE, "ok")
    /\ log' = [threaded |-> TRUE]

\* the payloads behind the status byte: none, a handle and a length, a
\* handle with a length byte and data, a find entry, a module entry
FileReplyPayloads ==
    {<<>>, <<1, 2, 9, 8>>}
    \cup {<<h>> \o le_bytes_u32(U32(3, 0)) : h \in {1, 2}}
    \cup {<<h>> \o A_FILE \o Zeros(FILENAME_LEN - Len(A_FILE)) \o le_bytes_u32(U32(9, 0)) :
             h \in {1, 2}}
    \cup {<<h>> \o TEST \o Zeros(FILENAME_LEN - Len(TEST)) \o le_bytes_u32(U32(1, 0))
               \o le_bytes_u32(U32(0, 0)) \o le_bytes_u16(2) : h \in {1, 2}}

\* the brick takes the oldest request and queues a reply of its opcode
BrickFile ==
    /\ toBrick # <<>>
    /\ EngineFrame
    /\ UNCHANGED <<pc, cur, result, brick, log>>
    /\ toBrick' = Tail(toBrick)
    /\ LET req == Head(toBrick) IN
       \E reply \in {<<PacketType_Reply, req.bytes[2], DeviceError_None>> \o pl :
                        pl \in FileReplyPayloads}
                    \cup {<<PacketType_Reply, req.bytes[2], DeviceError_FileNotFound>>} :
          fromBrick' = Append(fromBrick, [bytes |-> reply, tag |-> req.tag])

FileInit ==
    /\ EngineInit({"A"})
    /\ brick = [mode |-> "file"]
    /\ log = [threaded |-> FALSE]
    /\ CodecOff /\ StreamOff

FileNext ==
    \/ \E c \in Callers, name \in {A_FILE, NameOfLen(FILENAME_LEN)} : FileOpenRead(c, name)
    \/ \E c \in Callers, h \in TestFileHandles, len \in TestReadLens : FileRead(c, h, len)
    \/ \E c \in Callers, h \in TestFileHandles, data \in TestData : FileWrite(c, h, data)
    \/ \E c \in Callers, h \in TestFileHandles : FileClose(c, h)
    \/ \E c \in Callers, h \in TestFindHandles : FileFindNext(c, h)
    \/ \E c \in Callers, h \in TestModuleHandles : ModuleFindNext(c, h)
    \/ \E c \in Callers : FindNextLoop(c)
    \/ \E c \in Callers : Receive(c)
    \/ \E c \in Callers : RecvTimeout(c)
    \/ BrickFile
    \/ BrickIgnore

SpecFile == FileInit /\ [][FileNext]_vars

-----------------------------------------------------------------------------
(* SpecOps: the other operations of lib.rs, one caller.  Each operation    *)
(* builds its request, sends it with Nxt::send and, unless it sent with    *)
(* check_status, reads the reply with Nxt::recv and decodes it (Decode).   *)
(* The brick answers a request with a reply of the request's opcode (the   *)
(* payload the operation reads, that payload cut short, or a failure       *)
(* status), with a reply of another opcode or of another type, or loses    *)
(* the request; a read times out only when no request is on its way, and   *)
(* a write is complete or fails.                                           *)

\* system.rs: enum BufType by numeric value
BufTypeSet == {0, 1}

\* b"Let's dance: SAMBA\0"
SAMBA == <<76, 101, 116, 39, 115, 32, 100, 97, 110, 99, 101, 58, 32,
           83, 65, 77, 66, 65, 0>>

PlaySound(c, file, loop_, w) ==
    Begin(c, "play_sound", [file |-> file, loop_ |-> loop_],
          push_filename(push_bool(Packet_new(DirectPlaySoundFile), loop_), file), TRUE, w)
    /\ UNCHANGED log
PlayTone(c, freq, duration_ms, w) ==
    Begin(c, "play_tone", [freq |-> freq, duration_ms |-> duration_ms],
          RetOk(push_u16(push_u16(Packet_new(DirectPlayTone), freq), duration_ms), 0, <<>>),
          TRUE, w)
    /\ UNCHANGED log
SetOutputState(c, port, power, mode, regulation_mode, turn_ratio, run_state, tacho_limit, w) ==
    LET p1 == push_i8(push_u8(Packet_new(DirectSetOutState), port), power)
        p2 == push_u8(push_u8(p1, mode), regulation_mode)
        p3 == push_u8(push_i8(p2, turn_ratio), run_state)
    IN  Begin(c, "set_output_state", port, RetOk(push_u32(p3, tacho_limit), 0, <<>>), TRUE, w)
    /\ UNCHANGED log
SetInputMode(c, port, sensor_type, sensor_mode, w) ==
    Begin(c, "set_input_mode", port,
          RetOk(push_u8(push_u8(push_u8(Packet_new(DirectSetInMode), port), sensor_type),
                        sensor_mode), 0, <<>>), TRUE, w)
    /\ UNCHANGED log
GetOutputState(c, port, w) ==
    Begin(c, "get_output_state", port,
          RetOk(push_u8(Packet_new(DirectGetOutState), port), 0, <<>>), FALSE, w)
    /\ UNCHANGED log
ResetInputScaledValue(c, port, w) ==
    Begin(c, "reset_input_scaled_value", port,
          RetOk(push_u8(Packet_new(DirectResetInVal), port), 0, <<>>), TRUE, w)
    /\ UNCHANGED log
ResetMotorPosition(c, port, relative, w) ==
    Begin(c, "reset_motor_position", port,
          RetOk(push_bool(push_u8(Packet_new(DirectResetPosition), port), relative), 0, <<>>),
          TRUE, w)
    /\ UNCHANGED log
StopSoundPlayback(c, w) ==
    Begin(c, "stop_sound_playback", 0, RetOk(Packet_new(DirectStopSound), 0, <<>>), TRUE, w)
    /\ UNCHANGED log
KeepAlive(c, w) ==
    Begin(c, "keep_alive", 0, RetOk(Packet_new(DirectKeepAlive), 0, <<>>), FALSE, w)
    /\ UNCHANGED log
LsGetStatus(c, port, w) ==
    Begin(c, "ls_get_status", port,
          RetOk(push_u8(Packet_new(DirectLsGetStatus), port), 0, <<>>), FALSE, w)
    /\ UNCHANGED log
\* Nxt::ls_write: the check of the data's length, then the packet
LsWrite(c, port, tx_data, rx_bytes, w) ==
    LET p == push_u8(push_u8(push_u8(Packet_new(DirectLsWrite), port),
                             Len(tx_data) % 256), rx_bytes)
    IN  Begin(c, "ls_write", port,
              IF Len(tx_data) > MAX_MESSAGE_LEN
              THEN RetErr(NoPacket, "Serialise", "Data too long")
              ELSE RetOk(push_slice(p, tx_data), 0, <<>>), TRUE, w)
    /\ UNCHANGED log
LsRead(c, port, w) ==
    Begin(c, "ls_read", port, RetOk(push_u8(Packet_new(DirectLsRead), port), 0, <<>>),
          FALSE, w)
    /\ UNCHANGED log
GetCurrentProgramName(c, w) ==
    Begin(c, "get_current_program_name", 0,
          RetOk(Packet_new(DirectGetCurrProgram), 0, <<>>), FALSE, w)
    /\ UNCHANGED log
MessageRead(c, remote_inbox, local_inbox, remove, w) ==
    Begin(c, "message_read", remote_inbox,
          RetOk(push_bool(push_u8(push_u8(Packet_new(DirectMessageRead), remote_inbox),
                                  local_inbox), remove), 0, <<>>), FALSE, w)
    /\ UNCHANGED log

\* Nxt::file_open_write, file_open_write_data, file_open_read_linear and
\* file_open_write_linear up to send_recv: the name, then the length
build_file_open(opcode, name, len) ==
    LET r == push_filename(Packet_new(opcode), name) IN
    IF r.err # "Ok" THEN r ELSE RetOk(push_u32(r.pkt, len), 0, <<>>)

FileOpenWrite(c, name, len, w) ==
    Begin(c, "file_open_write", [name |-> name, len |-> len],
          build_file_open(SystemOpenwrite, name, len), FALSE, w)
    /\ UNCHANGED log
FileOpenWriteData(c, name, len, w) ==
    Begin(c, "file_open_write_data", [name |-> name, len |-> len],
          build_file_open(SystemOpenwritedata, name, len), FALSE, w)
    /\ UNCHANGED log
FileOpenReadLinear(c, name, len, w) ==
    Begin(c, "file_open_read_linear", [name |-> name, len |-> len],
          build_file_open(SystemOpenreadlinear, name, len), FALSE, w)
    /\ UNCHANGED log
FileOpenWriteLinear(c, name, len, w) ==
    Begin(c, "file_open_write_linear", [name |-> name, len |-> len],
          build_file_open(SystemOpenwritelinear, name, len), FALSE, w)
    /\ UNCHANGED log
FileOpenAppendData(c, name, w) ==
    Begin(c, "file_open_append_data", name,
          push_filename(Packet_new(SystemOpenappenddata), name), FALSE, w)
    /\ UNCHANGED log
FileDelete(c, name, w) ==
    Begin(c, "file_delete", name, push_filename(Packet_new(SystemDelete), name), TRUE, w)
    /\ UNCHANGED log
ModuleFindFirst(c, pattern, w) ==
    Begin(c, "module_find_first", pattern,
          push_filename(Packet_new(SystemFindfirstmodule), pattern), FALSE, w)
    /\ UNCHANGED log
ModuleClose(c, handle, w) ==
    Begin(c, "module_close", handle.handle,
          RetOk(push_u8(Packet_new(SystemClosemodhandle), handle.handle), 0, <<>>), TRUE, w)
    /\ UNCHANGED log
\* Nxt::write_io_map: data.len().try_into()? fails for more than a u16 holds
WriteIoMap(c, mod_id, offset, data, w) ==
    LET p == push_u16(push_u32(Packet_new(SystemIomapwrite), mod_id), offset) IN
    Begin(c, "write_io_map", [mod_id |-> mod_id, offset |-> offset],
          IF Len(data) > 65535
          THEN RetErr(p, "IntOutOfRange", "")
          ELSE RetOk(push_slice(push_u16(p, Len(data)), data), 0, <<>>), FALSE, w)
    /\ UNCHANGED log
\* Nxt::boot: nothing is built unless sure
Boot(c, sure, w) ==
    Begin(c, "boot", sure,
          IF ~sure
          THEN RetErr(NoPacket, "Serialise", "Are you sure? This is not recoverable")
          ELSE RetOk(push_slice(Packet_new(SystemBootcmd), SAMBA), 0, <<>>), FALSE, w)
    /\ UNCHANGED log
SetBrickName(c, name, w) ==
    Begin(c, "set_brick_name", name,
          push_str(Packet_new(SystemSetbrickname), name, MAX_NAME_LEN), TRUE, w)
    /\ UNCHANGED log
GetBtAddr(c, w) ==
    Begin(c, "get_bt_addr", 0, RetOk(Packet_new(SystemBtgetaddr), 0, <<>>), FALSE, w)
    /\ UNCHANGED log
GetDeviceInfo(c, w) ==
    Begin(c, "get_device_info", 0, RetOk(Packet_new(SystemDeviceinfo), 0, <<>>), FALSE, w)
    /\ UNCHANGED log
DeleteUserFlash(c, w) ==
    Begin(c, "delete_user_flash", 0, RetOk(Packet_new(SystemDeleteuserflash), 0, <<>>),
          TRUE, w)
    /\ UNCHANGED log
PollCommandLength(c, buf, w) ==
    Begin(c, "poll_command_length", buf,
          RetOk(push_u8(Packet_new(SystemPollcmdlen), buf), 0, <<>>), FALSE, w)
    /\ UNCHANGED log
PollCommand(c, buf, len, w) ==
    Begin(c, "poll_command", buf,
          RetOk(push_u8(push_u8(Packet_new(SystemPollcmd), buf), len), 0, <<>>), FALSE, w)
    /\ UNCHANGED log
BluetoothFactoryReset(c, w) ==
    Begin(c, "bluetooth_factory_reset", 0,
          RetOk(Packet_new(SystemBtfactoryreset), 0, <<>>), TRUE, w)
    /\ UNCHANGED log

\* what follows the status byte in the brick's reply to a request of the
\* opcode o, as the operation reads it
GoodPayload(o) ==
    CASE o = DirectGetOutState ->
            <<0, 156, 7, 1, 200, 32>> \o le_bytes_u32(U32(360, 0))
                \o <<254, 255, 255, 255>> \o <<44, 1, 0, 0>> \o <<0, 0, 0, 128>>
      [] o = DirectKeepAlive -> le_bytes_u32(U32(37856, 9))
      [] o = DirectLsGetStatus -> <<3>>
      [] o \in {DirectLsRead} -> <<2, 7, 8>>
      [] o = DirectGetCurrProgram -> TEST \o Zeros(FILENAME_LEN - Len(TEST))
      [] o \in {DirectMessageRead, SystemPollcmd} -> <<1, 2, 7, 8>>
      [] o \in {SystemOpenwrite, SystemOpenwritedata, SystemOpenreadlinear,
                SystemOpenwritelinear} -> <<1>>
      [] o = SystemOpenappenddata -> <<1>> \o le_bytes_u32(U32(9, 0))
      [] o = SystemFindfirstmodule ->
            <<1>> \o TEST \o Zeros(FILENAME_LEN - Len(TEST)) \o le_bytes_u32(U32(1, 10))
                \o le_bytes_u32(U32(0, 0)) \o le_bytes_u16(919)
      [] o = SystemIomapread -> le_bytes_u32(U32(1, 10)) \o le_bytes_u16(3) \o <<1, 2, 3>>
      [] o = SystemIomapwrite -> le_bytes_u32(U32(1, 10)) \o le_bytes_u16(3)
      [] o = SystemBootcmd -> <<89, 101, 115, 0>>
      [] o = SystemBtgetaddr -> <<0, 22, 83, 1, 2, 3>>
      [] o = SystemDeviceinfo ->
            TEST \o Zeros(MAX_NAME_LEN - Len(TEST)) \o <<0, 22, 83, 1, 2, 3, 0>>
                \o <<1, 2, 3, 4>> \o le_bytes_u32(U32(1000, 1))
      [] o = SystemPollcmdlen -> <<1, 5>>
      [] OTHER -> <<>>

\* the replies the brick may give to a request of the opcode o
OpsReplies(o) ==
    LET good == GoodPayload(o) IN
    {<<PacketType_Reply, o, DeviceError_None>> \o good,
     <<PacketType_Reply, o, DeviceError_None>> \o SubSeq(good, 1, Len(good) - 1),
     <<PacketType_Reply, o, DeviceError_FileNotFound>>,
     <<PacketType_Reply, DirectGetBattLevel, DeviceError_None>>,
     <<3, o, DeviceError_None>>}
    \cup (IF o = DirectGetOutState
          THEN {<<PacketType_Reply, o, DeviceError_None>> \o [good EXCEPT ![i] = 9] :
                   i \in {1, 4, 6}}
          ELSE {})

\* the brick takes the oldest request and queues a reply to it
BrickOps ==
    /\ toBrick # <<>>
    /\ Len(Head(toBrick).bytes) >= 2
    /\ EngineFrame
    /\ UNCHANGED <<pc, cur, result, brick, log>>
    /\ toBrick' = Tail(toBrick)
    /\ \E reply \in OpsReplies(Head(toBrick).bytes[2]) :
          fromBrick' = Append(fromBrick, [bytes |-> reply, tag |-> Head(toBrick).tag])

\* rusb write_bulk here: everything written, or an error
OpsWrites == {"ok", "err"}

\* the arguments offered to the operations
TestFileNames == {A_FILE, NameOfLen(FILENAME_LEN)}
TestLsData == {<<2, 66>>, MessageOfLen(MAX_MESSAGE_LEN), MessageOfLen(MAX_MESSAGE_LEN + 1)}
TestIoData == {<<1, 2, 3>>, MessageOfLen(BUF_LEN)}

OpsInit ==
    /\ EngineInit({"A"})
    /\ brick = [mode |-> "ops"]
    /\ log = <<>>
    /\ CodecOff /\ StreamOff

OpsNext ==
    \/ \E c \in Callers, file \in TestFileNames, loop_ \in BOOLEAN, w \in OpsWrites :
          PlaySound(c, file, loop_, w)
    \/ \E c \in Callers, w \in OpsWrites : PlayTone(c, 440, 1000, w)
    \/ \E c \in Callers, port \in {0, 255}, power \in {-100, 100}, w \in OpsWrites :
          SetOutputState(c, port, power, 7, 1, -56, 32, U32(360, 0), w)
    \/ \E c \in Callers, port \in {0, 3}, w \in OpsWrites :
          SetInputMode(c, port, 1, 32, w)
    \/ \E c \in Callers, port \in {0}, w \in OpsWrites : GetOutputState(c, port, w)
    \/ \E c \in Callers, port \in {0}, w \in OpsWrites :
          ResetInputScaledValue(c, port, w)
    \/ \E c \in Callers, port \in {0}, relative \in BOOLEAN, w \in OpsWrites :
          ResetMotorPosition(c, port, relative, w)
    \/ \E c \in Callers, w \in OpsWrites : StopSoundPlayback(c, w)
    \/ \E c \in Callers, w \in OpsWrites : KeepAlive(c, w)
    \/ \E c \in Callers, port \in {0}, w \in OpsWrites : LsGetStatus(c, port, w)
    \/ \E c \in Callers, port \in {0}, tx_data \in TestLsData, w \in OpsWrites :
          LsWrite(c, port, tx_data, 1, w)
    \/ \E c \in Callers, port \in {0}, w \in OpsWrites : LsRead(c, port, w)
    \/ \E c \in Callers, w \in OpsWrites : GetCurrentProgramName(c, w)
    \/ \E c \in Callers, remove \in BOOLEAN, w \in OpsWrites :
          MessageRead(c, 11, 1, remove, w)
    \/ \E c \in Callers, name \in TestFileNames, w \in OpsWrites :
          FileOpenWrite(c, name, U32(9, 0), w)
    \/ \E c \in Callers, name \in TestFileNames, w \in OpsWrites :
          FileOpenWriteData(c, name, U32(9, 0), w)
    \/ \E c \in Callers, name \in TestFileNames, w \in OpsWrites :
          FileOpenReadLinear(c, name, U32(9, 0), w)
    \/ \E c \in Callers, name \in TestFileNames, w \in OpsWrites :
          FileOpenWriteLinear(c, name, U32(9, 0), w)
    \/ \E c \in Callers, name \in TestFileNames, w \in OpsWrites :
          FileOpenAppendData(c, name, w)
    \/ \E c \in Callers, name \in TestFileNames, w \in OpsWrites : FileDelete(c, name, w)
    \/ \E c \in Callers, pattern \in TestFileNames, w \in OpsWrites :
          ModuleFindFirst(c, pattern, w)
    \/ \E c \in Callers, h \in TestModuleHandles, w \in OpsWrites : ModuleClose(c, h, w)
    \/ \E c \in Callers, w \in OpsWrites :
          ReadIoMap(c, U32(1, 10), DISPLAY_DATA_OFFSET, 3, w)
    \/ \E c \in Callers, data \in TestIoData, w \in OpsWrites :
          WriteIoMap(c, U32(1, 10), DISPLAY_DATA_OFFSET, data, w)
    \/ \E c \in Callers, sure \in BOOLEAN, w \in OpsWrites : Boot(c, sure, w)
    \/ \E c \in Callers, name \in {TEST, NameOfLen(MAX_NAME_LEN)}, w \in OpsWrites :
          SetBrickName(c, name, w)
    \/ \E c \in Callers, w \in OpsWrites : GetBtAddr(c, w)
    \/ \E c \in Callers, w \in OpsWrites : GetDeviceInfo(c, w)
    \/ \E c \in Callers, w \in OpsWrites : DeleteUserFlash(c, w)
    \/ \E c \in Callers, buf \in BufTypeSet, w \in OpsWrites :
          PollCommandLength(c, buf, w)
    \/ \E c \in Callers, buf \in BufTypeSet, w \in OpsWrites : PollCommand(c, buf, 2, w)
    \/ \E c \in Callers, w \in OpsWrites : BluetoothFactoryReset(c, w)
    \/ \E c \in Callers : Receive(c)
    \/ \E c \in Callers : toBrick = <<>> /\ RecvTimeout(c)
    \/ BrickOps
    \/ BrickIgnore

SpecOps == OpsInit /\ [][OpsNext]_vars

-----------------------------------------------------------------------------
(* SpecAdapter: socket/bluetooth.rs, static ADAPTER and init_adapter.      *)
(* Concurrent calls of init_adapter; a call can be suspended at each of    *)
(* its awaits, and each of the three awaited operations may fail.          *)
(* bt.ADAPTER is the OnceLock ("None" or the name of the adapter stored),  *)
(* bt.call[c] the call of task c; an adapter is named after the task that  *)
(* built it.  bt.writes is ghost: the number of writes to the slot.        *)

Initializers == {"i1", "i2", "i3"}

NoInitCall == [pc |-> "idle", own |-> "None", err |-> "None", adapter |-> "None"]

AdapterFrame ==
    UNCHANGED <<pkt, ret, pc, cur, result, toBrick, fromBrick, brick, log, stream>>

\* the call of task c returns
AdReturn(c, err, adapter) ==
    [bt.call EXCEPT ![c] = [@ EXCEPT !.pc = "done", !.err = err, !.adapter = adapter]]

\* line 27: ADAPTER.get()
AdGet(c) ==
    /\ bt.call[c].pc \in {"idle", "done"}
    /\ AdapterFrame
    /\ IF bt.ADAPTER # "None"
       THEN bt' = [bt EXCEPT !.call = [bt.call EXCEPT ![c] =
                       [NoInitCall EXCEPT !.pc = "done", !.err = "Ok",
                                          !.adapter = bt.ADAPTER]]]
       ELSE bt' = [bt EXCEPT !.call = [bt.call EXCEPT ![c] =
                       [NoInitCall EXCEPT !.pc = "session"]]]

\* line 30: bluer::Session::new().await?
AdSession(c, ok) ==
    /\ bt.call[c].pc = "session"
    /\ AdapterFrame
    /\ bt' = [bt EXCEPT !.call =
                 IF ok THEN [bt.call EXCEPT ![c].pc = "adapter"]
                 ELSE AdReturn(c, "Bluetooth", "None")]

\* line 31: session.default_adapter().await?
AdDefaultAdapter(c, ok) ==
    /\ bt.call[c].pc = "adapter"
    /\ AdapterFrame
    /\ bt' = [bt EXCEPT !.call =
                 IF ok THEN [bt.call EXCEPT ![c].pc = "power", ![c].own = c]
                 ELSE AdReturn(c, "Bluetooth", "None")]

\* line 32: adapter.set_powered(true).await?
AdSetPowered(c, ok) ==
    /\ bt.call[c].pc = "power"
    /\ AdapterFrame
    /\ bt' = [bt EXCEPT !.call =
                 IF ok THEN [bt.call EXCEPT ![c].pc = "store"]
                 ELSE AdReturn(c, "Bluetooth", "None")]

\* (mutant) a slot that every caller overwrites with its own adapter
AdStore_overwrite(c) ==
    /\ bt.call[c].pc = "store"
    /\ AdapterFrame
    /\ bt' = [ADAPTER |-> bt.call[c].own,
              writes |-> IF bt.writes < 3 THEN bt.writes + 1 ELSE bt.writes,
              call |-> AdReturn(c, "Ok", bt.call[c].own)]

\* line 33: Ok(ADAPTER.get_or_init(|| adapter)); the OnceLock stores the
\* value of the first caller and hands every caller the value stored
AdStore(c) ==
    /\ bt.call[c].pc = "store"
    /\ AdapterFrame
    /\ IF bt.ADAPTER = "None"
       THEN bt' = [ADAPTER |-> bt.call[c].own, writes |-> bt.writes + 1,
                   call |-> AdReturn(c, "Ok", bt.call[c].own)]
       ELSE bt' = [bt EXCEPT !.call = AdReturn(c, "Ok", bt.ADAPTER)]

AdapterInit ==
    /\ bt = [ADAPTER |-> "None", writes |-> 0,
             call |-> [c \in Initializers |-> NoInitCall]]
    /\ stream = <<>>
    /\ EngineOff /\ CodecOff

AdapterNext ==
    \/ \E c \in Initializers : AdGet(c)
    \/ \E c \in Initializers, ok \in BOOLEAN : AdSession(c, ok)
    \/ \E c \in Initializers, ok \in BOOLEAN : AdDefaultAdapter(c, ok)
    \/ \E c \in Initializers, ok \in BOOLEAN : AdSetPowered(c, ok)
    \/ \E c \in Initializers : AdStore(c)

SpecAdapter == AdapterInit /\ [][AdapterNext]_vars

-----------------------------------------------------------------------------
(* Claims checked under SpecCodec                                          *)

\* C6: the status byte b read by check_status is classified three ways:
\* b = 0x00 is success; a non-zero b of the closed status table is
\* Error::Device carrying exactly b (0x87 is FileNotFound); any other b
\* (0x99) is Error::Parse("Invalid status").  No byte is classified twice.
C6_StatusThreeWay ==
    (ret.op = "check_status" /\ ret.pre.data_offset < Len(ret.pre.data)) =>
        LET b == ret.pre.data[ret.pre.data_offset + 1] IN
        /\ (b = 0) <=> (ret.err = "Ok")
        /\ (b \in DeviceErrorSet \ {0}) <=> (ret.err = "Device" /\ ret.val = b)
        /\ (b \notin DeviceErrorSet) <=> (ret.err = "Parse" /\ ret.msg = "Invalid status")
        /\ ret.err \in {"Ok", "Device", "Parse"}
        /\ (b = 135 => ret.err = "Device" /\ ret.val = DeviceError_FileNotFound)
        /\ (b = 153 => ret.err = "Parse")
        /\ pkt.data_offset = ret.pre.data_offset + 1

\* a recognised non-zero status and an unrecognised one have both been read
C6_Witness ==
    /\ ret.op = "check_status"
    /\ ret.pre.data_offset < Len(ret.pre.data)
    /\ ret.pre.data[ret.pre.data_offset + 1] = 153
    /\ ret.err = "Parse"

\* C8: serialising a packet whose payload has n bytes, 2 + n <= 64, returns
\* exactly 2 + n bytes: the type byte, the opcode byte, then the payload in
\* order; a get-battery-level request without payload gives [0x00, 0x0B].
C8_SerialiseLayout ==
    (ret.op = "serialise" /\ 2 + Len(ret.pre.data) <= 64) =>
        /\ ret.err = "Ok"
        /\ Len(ret.bytes) = 2 + Len(ret.pre.data)
        /\ ret.bytes[1] = ret.pre.typ
        /\ ret.bytes[2] = ret.pre.opcode
        /\ \A i \in 1..Len(ret.pre.data) : ret.bytes[2 + i] = ret.pre.data[i]
        /\ (ret.pre.opcode = DirectGetBattLevel /\ ret.pre.data = <<>>
                => ret.bytes = <<0, 11>>)
        /\ pkt = ret.pre

\* a packet with two pushed fields has been serialised
C8_Witness ==
    /\ ret.op = "serialise" /\ ret.err = "Ok"
    /\ ret.npush = 2
    /\ Len(ret.pre.data) > FILENAME_LEN

\* C9: for a request packet p built by Packet::new and pushes, of serialised
\* length at most 64, Packet::parse(serialise(p)) succeeds and equals p: same
\* type tag, same opcode, and the bytes the cursor has not read are p's payload.
C9_SerialiseParseRoundTrip ==
    ret.op = "parse_back" =>
        /\ ret.err = "Ok"
        /\ Packet_eq(pkt, ret.pre)
        /\ pkt.typ = ret.pre.typ
        /\ pkt.opcode = ret.pre.opcode
        /\ SubSeq(pkt.data, pkt.data_offset + 1, Len(pkt.data)) = ret.pre.data

\* a packet with a non-empty payload has made the round trip
C9_Witness ==
    /\ ret.op = "parse_back" /\ ret.err = "Ok"
    /\ ret.pre.opcode = SystemSetbrickname
    /\ ret.pre.data = TEST \o Zeros(MAX_NAME_LEN - 4)

\* C10: for an ASCII name of L <= 19 bytes push_filename succeeds and appends
\* exactly 20 bytes, the name then 20 - L NUL bytes ("a_file" then 14 NULs);
\* the bytes already in the payload are unchanged.
C10_PushFilenameField ==
    (ret.op = "push_filename" /\ is_ascii(ret.argb) /\ Len(ret.argb) <= 19) =>
        LET n == Len(ret.pre.data)
            L == Len(ret.argb)
        IN  /\ ret.err = "Ok"
            /\ Len(pkt.data) = n + 20
            /\ SubSeq(pkt.data, 1, n) = ret.pre.data
            /\ \A i \in 1..L : pkt.data[n + i] = ret.argb[i]
            /\ \A i \in (L + 1)..20 : pkt.data[n + i] = 0
            /\ (ret.argb = A_FILE =>
                    SubSeq(pkt.data, n + 1, n + 20)
                      = <<97, 95, 102, 105, 108, 101, 0, 0, 0, 0, 0, 0, 0, 0, 0, 0, 0, 0, 0, 0>>)
            /\ pkt.typ = ret.pre.typ /\ pkt.opcode = ret.pre.opcode

\* "a_file" has been pushed behind bytes already in the payload
C10_Witness ==
    /\ ret.op = "push_filename" /\ ret.err = "Ok"
    /\ ret.argb = A_FILE
    /\ ret.pre.data # <<>>

\* C11: push_filename fails with a serialisation error whenever the name has
\* 20 or more bytes or a non-ASCII character, and a failed push_filename
\* leaves the packet as it was.
C11_PushFilenameRejects ==
    ret.op = "push_filename" =>
        /\ (Len(ret.argb) >= FILENAME_LEN \/ \E i \in DOMAIN ret.argb : ret.argb[i] >= 128)
              => ret.err = "Serialise"
        /\ ret.err # "Ok" => pkt = ret.pre

\* C11: a 20-byte name and a name with a non-ASCII character have been
\* refused on a packet that already had a payload
C11_Witness ==
    /\ ret.op = "push_filename"
    /\ ret.argb \in {NameOfLen(FILENAME_LEN), NameOfLen(FILENAME_LEN - 3) \o E_ACUTE}
    /\ ret.err = "Serialise"
    /\ ret.pre.data # <<>>
    /\ pkt = ret.pre

\* C12: push_str(s, N) appends s and N - len(s) NUL bytes, N bytes in all,
\* when len(s) + 1 <= N; otherwise it fails with a serialisation error and
\* appends nothing.
C12_PushStrField ==
    ret.op = "push_str" =>
        IF Len(ret.argb) + 1 <= ret.arg
        THEN /\ ret.err = "Ok"
             /\ pkt.data = ret.pre.data \o ret.argb \o Zeros(ret.arg - Len(ret.argb))
             /\ Len(pkt.data) = Len(ret.pre.data) + ret.arg
             /\ pkt.typ = ret.pre.typ /\ pkt.opcode = ret.pre.opcode
        ELSE /\ ret.err = "Serialise"
             /\ pkt = ret.pre

\* C12: "test" has been pushed with bound 15 behind an earlier field
C12_Witness ==
    /\ ret.op = "push_str" /\ ret.argb = TEST /\ ret.arg = MAX_NAME_LEN
    /\ ret.err = "Ok"
    /\ ret.pre.data # <<>>
    /\ Len(pkt.data) = Len(ret.pre.data) + MAX_NAME_LEN

\* the text s, free of NUL bytes, whose push_str(s, N) field is the first
\* field of packet p (the set is empty if there is none)
PushedStr(p, n) ==
    {s \in TestStrings :
        /\ \A i \in DOMAIN s : s[i] # 0
        /\ Len(s) + 1 <= n
        /\ Len(p.data) >= 2 + n
        /\ SubSeq(p.data, 3, 2 + n) = push_str(Packet_new(p.opcode), s, n).pkt.data}

\* C13: read_string(N) on the field push_str(s, N) wrote, s free of NUL
\* bytes, returns s and moves the cursor by N, so that the next read takes
\* the byte behind the field.
C13_StringRoundTrip ==
    ret.op = "read_string" =>
        \A s \in PushedStr(ret.pre, ret.arg) :
            /\ ret.err = "Ok"
            /\ ret.bytes = s
            /\ pkt.data_offset = ret.pre.data_offset + ret.arg
            /\ Len(pkt.data) > pkt.data_offset =>
                  read_u8(pkt).val = ret.pre.data[2 + ret.arg + 1]

\* C13: "test", pushed with bound 15 and followed by another field, has been
\* read back with bound 15
C13_Witness ==
    /\ ret.op = "read_string" /\ ret.arg = MAX_NAME_LEN
    /\ TEST \in PushedStr(ret.pre, ret.arg)
    /\ ret.bytes = TEST
    /\ pkt.data_offset = 2 + MAX_NAME_LEN
    /\ Len(pkt.data) > pkt.data_offset

\* the bytes of packet p that its cursor has not passed: what the reads
\* deliver and what the packet's equality compares
ParsePayload(p) == SubSeq(p.data, p.data_offset + 1, Len(p.data))

\* C36: a packet Packet::parse returns for a buffer has the buffer's first
\* byte as its type and the second as its opcode, and its payload, the bytes
\* from the cursor on, is the rest of the buffer: it equals the packet of
\* that type and opcode holding those bytes with the cursor at 0, and its
\* first read takes the buffer's third byte (or fails when there is none).
C36_ParseKeepsRest ==
    (ret.op \in {"parse", "parse_back"} /\ ret.err = "Ok") =>
        LET buf == ret.argb
            rest == SubSeq(buf, 3, Len(buf))
            r == read_u8(pkt)
        IN  /\ Len(buf) >= 2
            /\ pkt.typ = buf[1] /\ pkt.opcode = buf[2]
            /\ ParsePayload(pkt) = rest
            /\ Packet_eq(pkt, [typ |-> buf[1], opcode |-> buf[2], data |-> rest,
                               data_offset |-> 0])
            /\ IF rest = <<>> THEN r.err = "Parse" /\ r.msg = EndOfInput
               ELSE r.err = "Ok" /\ r.val = rest[1] /\ ParsePayload(r.pkt) = Tail(rest)

\* C36: the reply [0x02, 0x0B, 0x00, 0x0B, 0x00] has been parsed; the status
\* byte and the two bytes of the level are the payload still to read
C36_Witness ==
    /\ ret.op = "parse" /\ ret.err = "Ok"
    /\ ret.argb = <<PacketType_Reply, DirectGetBattLevel, 0, 11, 0>>
    /\ pkt.typ = PacketType_Reply /\ pkt.opcode = DirectGetBattLevel
    /\ ParsePayload(pkt) = <<0, 11, 0>>

-----------------------------------------------------------------------------
(* Claims checked under SpecTables                                         *)

PushOps == {"push_filename", "push_str", "push_bool", "push_u8", "push_i8",
            "push_u16", "push_u32", "push_slice"}

\* C14: is_system(v) holds exactly when bit 0x80 of v is set (v >= 128 for a
\* byte); it is false of every Direct* opcode and true of every System*
\* opcode, and the two classes partition the opcode set.
C14_IsSystemIsHighBit ==
    /\ DirectOpcodeSet \cap SystemOpcodeSet = {}
    /\ DirectOpcodeSet \cup SystemOpcodeSet = OpcodeSet
    /\ ret.op = "is_system" =>
          /\ ret.val = 1 <=> ret.arg >= 128
          /\ ret.arg \in DirectOpcodeSet => ret.val = 0
          /\ ret.arg \in SystemOpcodeSet => ret.val = 1

\* C14: is_system has answered true for 0x80, the lowest system opcode
C14_Witness ==
    /\ ret.op = "is_system" /\ ret.arg = SystemOpenread /\ ret.val = 1

\* C15: Packet::new gives type System to an opcode with bit 0x80 set and
\* Direct to any other, with an empty payload; a push, successful or failed,
\* changes neither the type nor the opcode, so the two agree throughout.
C15_TypeAgreesWithOpcode ==
    /\ ret.op = "new" =>
          /\ pkt.opcode = ret.arg
          /\ pkt.typ = IF ret.arg >= 128 THEN PacketType_System ELSE PacketType_Direct
          /\ pkt.data = <<>>
    /\ ret.op \in PushOps =>
          /\ pkt.typ = ret.pre.typ /\ pkt.opcode = ret.pre.opcode
          /\ pkt.typ = IF pkt.opcode >= 128 THEN PacketType_System ELSE PacketType_Direct

\* C15: a push has failed on a system request, which is still a system request
C15_Witness ==
    /\ ret.op \in PushOps /\ ret.err # "Ok"
    /\ ret.pre = Packet_new(SystemSetbrickname)
    /\ pkt.opcode = SystemSetbrickname
    /\ pkt.typ = PacketType_System

\* C16: Packet::parse succeeds exactly on buffers of two or more bytes whose
\* first byte is one of 0x00, 0x01, 0x02, 0x80, 0x81 and whose second byte
\* is an opcode; the packet then has that type and that opcode.  Otherwise
\* parse fails with a parse error and returns no packet.
C16_ParseAcceptance ==
    ret.op = "parse" =>
        LET buf == ret.argb
            good == /\ Len(buf) >= 2
                    /\ buf[1] \in {0, 1, 2, 128, 129}
                    /\ buf[2] \in DirectOpcodeSet \cup SystemOpcodeSet
        IN  /\ ret.err = "Ok" <=> good
            /\ good => (pkt.typ = buf[1] /\ pkt.opcode = buf[2] /\ pkt.data = buf)
            /\ ~good => (ret.err = "Parse" /\ pkt = NoPacket)

\* C16: a buffer with an unknown type byte and a known opcode was refused
C16_Witness ==
    /\ ret.op = "parse"
    /\ ret.argb = <<3, DirectGetBattLevel>>
    /\ ret.err = "Parse" /\ ret.msg = "Invalid packet type"
    /\ pkt = NoPacket

-----------------------------------------------------------------------------
(* Claims checked under Spec (one caller, any reply)                       *)

\* C1: a reply that parses and whose opcode differs from the request's makes
\* send_recv fail with ReplyMismatch, whatever its status byte and payload,
\* and no data is returned.  (The statement of the claim; recv classifies
\* the status byte before it compares the opcodes, so this does not hold.)
C1_OtherOpcodeIsReplyMismatch ==
    \A c \in Callers :
        LET call == cur[c]
            p == Packet_parse(call.got.bytes)
        IN  (/\ pc[c] = "done" /\ ~call.check /\ call.got # NoMsg
             /\ p.err = "Ok" /\ p.pkt.opcode # call.pkt.opcode)
            => (/\ result[c].err = "ReplyMismatch"
                /\ result[c].bytes = <<>> /\ result[c].out = <<>>)

\* C1: the failing case.  get_battery_level reads the reply [0x02, 0x01, 0x87]
\* and returns the device error FileNotFound.
C1_Witness ==
    /\ pc["A"] = "done"
    /\ cur["A"].op = "get_battery_level"
    /\ cur["A"].got.bytes = <<PacketType_Reply, DirectStopProgram, DeviceError_FileNotFound>>
    /\ result["A"].err = "Device"
    /\ result["A"].val = DeviceError_FileNotFound

\* C7: get_battery_level on the reply [0x02, 0x0B, 0x00, lo, hi] returns
\* Ok(lo + 256 * hi).
C7_BatteryLevelDecode ==
    \A c \in Callers :
        LET b == cur[c].got.bytes IN
        (/\ pc[c] = "done" /\ cur[c].op = "get_battery_level"
         /\ Len(b) = 5
         /\ SubSeq(b, 1, 3) = <<PacketType_Reply, DirectGetBattLevel, DeviceError_None>>)
        => (/\ result[c].err = "Ok"
            /\ result[c].val = b[4] + 256 * b[5])

\* C7: the reply [0x02, 0x0B, 0x00, 0x0B, 0x00] has been read and decoded to 11
C7_Witness ==
    /\ pc["A"] = "done"
    /\ cur["A"].op = "get_battery_level"
    /\ cur["A"].got.bytes = <<2, 11, 0, 11, 0>>
    /\ result["A"].err = "Ok"
    /\ result["A"].val = 11

\* a send_recv call of caller c has returned a reply packet
SendRecvReturned(c) ==
    /\ pc[c] = "done" /\ ~cur[c].check
    /\ cur[c].recv # NoPacket

\* C19 (as stated): the packet send_recv returns has its status byte not yet
\* consumed: the cursor is at the status byte, the first byte the caller reads.
C19_StatusLeftForCaller ==
    \A c \in Callers :
        SendRecvReturned(c) =>
            /\ cur[c].recv.data_offset = 2
            /\ read_u8(cur[c].recv).val = cur[c].got.bytes[3]

\* C19 (amended): the packet send_recv returns has its status byte consumed
\* and checked: the status byte was 0x00, the cursor is behind it, and the
\* first read of the caller yields the byte after the status byte (or fails
\* with end of input when there is none); a reply with any other status byte,
\* or none, is never returned.
C19_StatusConsumedBeforeReturn ==
    \A c \in Callers :
        LET b == cur[c].got.bytes IN
        SendRecvReturned(c) =>
            /\ Len(b) >= 3 /\ b[3] = DeviceError_None
            /\ cur[c].recv.data = b
            /\ cur[c].recv.data_offset = 3
            /\ cur[c].recv.opcode = cur[c].pkt.opcode
            /\ IF Len(b) > 3
               THEN read_u8(cur[c].recv).err = "Ok" /\ read_u8(cur[c].recv).val = b[4]
               ELSE read_u8(cur[c].recv).err = "Parse"

\* C19: send_recv returned the reply [0x02, 0x0B, 0x00, 0x34, 0x12]; the first
\* byte left to read is 0x34, not the status byte
C19_Witness ==
    /\ SendRecvReturned("A")
    /\ cur["A"].got.bytes = <<2, 11, 0, 52, 18>>
    /\ cur["A"].recv.data_offset = 3
    /\ read_u8(cur["A"].recv).val = 52
    /\ result["A"].err = "Ok"

\* the transport operations of caller c's current call: nsend counts its
\* write_bulk calls and nrecv its read_bulk calls
NoRetryCounts(c) ==
    /\ cur[c].nsend <= 1 /\ cur[c].nrecv <= 1
    /\ cur[c].nrecv = 1 => cur[c].nsend = 1
    /\ pc[c] = "sent" => (cur[c].nsend = 1 /\ cur[c].nrecv = 0)
    /\ (pc[c] = "done" /\ result[c].err = "Write")
          => (cur[c].nsend = 1 /\ cur[c].nrecv = 0)
    /\ (pc[c] = "done" /\ result[c].err \in {"Parse", "Device", "ReplyMismatch"})
          => (cur[c].nsend = 1 /\ cur[c].nrecv = 1)
    /\ (pc[c] = "done" /\ result[c].err = "Usb")
          => (cur[c].nsend = 1 /\ cur[c].nrecv \in {0, 1})

\* a step in which the call of caller c reads from the transport
RecvStep(c) == cur'[c].nrecv = cur[c].nrecv + 1 /\ cur'[c].gen = cur[c].gen

\* C20 (as stated): every call performs at most one transport send and at
\* most one transport receive; a call that has returned (with a value, a
\* transport failure, a parse failure, a device error or ReplyMismatch)
\* touches the transport no more: requests are written only by a call that
\* starts, replies are taken only by a call that has sent and not yet received.
C20_NoRetry ==
    /\ [](\A c \in Callers : NoRetryCounts(c))
    /\ [][\A c \in Callers :
            /\ (pc[c] = "done" /\ cur'[c].gen = cur[c].gen)
                  => (cur'[c] = cur[c] /\ pc'[c] = "done" /\ result'[c] = result[c])
            /\ (pc[c] = "sent" /\ pc'[c] # "sent")
                  => (pc'[c] = "done" /\ cur'[c].nrecv = 1 /\ toBrick' = toBrick)
         ]_vars
    /\ [][/\ Len(toBrick') > Len(toBrick)
             => \E c \in Callers : cur'[c].nsend = 1 /\ cur'[c].gen # cur[c].gen
          /\ Len(fromBrick') < Len(fromBrick)
             => \E c \in Callers : pc[c] = "sent" /\ RecvStep(c) /\ pc'[c] = "done"
         ]_vars

\* the exchanges caller c's call has completed before the one it is in:
\* the chunks get_display_data has read, none in any other operation
Exchanged(c) == IF cur[c].op = "get_display_data" THEN cur[c].arg ELSE 0

\* the transport operations of caller c's current call, by exchange: an
\* operation other than get_display_data makes one exchange, get_display_data
\* at most DISPLAY_NUM_CHUNKS, and each exchange is one write_bulk and then at
\* most one read_bulk
ExchangeCounts(c) ==
    LET k == Exchanged(c) IN
    /\ k < DISPLAY_NUM_CHUNKS
    /\ cur[c].nsend <= k + 1 /\ cur[c].nrecv <= cur[c].nsend
    /\ cur[c].nsend <= cur[c].nrecv + 1
    /\ pc[c] = "sent" => (cur[c].nsend = k + 1 /\ cur[c].nrecv = k)
    /\ pc[c] = "chunk"
          => /\ cur[c].op = "get_display_data"
             /\ cur[c].nsend = k + 1 /\ cur[c].nrecv = k + 1
             /\ Len(cur[c].acc) = (k + 1) * DISPLAY_DATA_CHUNK_SIZE
    /\ (pc[c] = "done" /\ result[c].err = "Write")
          => (cur[c].nsend = k + 1 /\ cur[c].nrecv = k)
    /\ (pc[c] = "done" /\ result[c].err \in {"Parse", "Device", "ReplyMismatch"})
          => (cur[c].nsend = k + 1 /\ cur[c].nrecv = k + 1)
    /\ (pc[c] = "done" /\ result[c].err = "Usb")
          => (cur[c].nsend = k + 1 /\ cur[c].nrecv \in {k, k + 1})
    /\ (pc[c] = "done" /\ result[c].err = "Ok" /\ cur[c].op = "get_display_data")
          => /\ cur[c].nsend = DISPLAY_NUM_CHUNKS /\ cur[c].nrecv = DISPLAY_NUM_CHUNKS
             /\ Len(result[c].bytes) = DISPLAY_DATA_LEN

\* C20 (amended): every operation other than get_display_data performs at
\* most one transport send and at most one transport receive per call;
\* get_display_data performs one send and one receive for each chunk in turn,
\* at most 25 of each, and asks for the next chunk only when the one before
\* was read without failure.  A call that has returned (with a value, a
\* transport failure, a parse failure, a device error or ReplyMismatch)
\* touches the transport no more: requests are written only by a call that
\* starts or goes on to its next chunk, replies are taken only by a call that
\* has sent and not yet received.
C20_NoRetryPerExchange ==
    /\ [](\A c \in Callers : ExchangeCounts(c))
    /\ [][\A c \in Callers :
            /\ (pc[c] \in {"done", "panicked"} /\ cur'[c].gen = cur[c].gen)
                  => (cur'[c] = cur[c] /\ pc'[c] = pc[c] /\ result'[c] = result[c])
            /\ (pc[c] = "sent" /\ pc'[c] # "sent")
                  => /\ pc'[c] \in {"done", "chunk", "panicked"}
                     /\ cur'[c].nrecv = cur[c].nrecv + 1
                     /\ cur'[c].nsend = cur[c].nsend
                     /\ toBrick' = toBrick
            /\ (pc[c] = "sent" /\ pc'[c] = "chunk")
                  => /\ Nxt_recv(cur'[c].got.bytes, cur[c].pkt.opcode).err = "Ok"
                     /\ result'[c] = NoResult
            /\ (pc[c] = "chunk" /\ pc'[c] # "chunk")
                  => /\ cur'[c].nsend = cur[c].nsend + 1
                     /\ cur'[c].nrecv = cur[c].nrecv
                     /\ fromBrick' = fromBrick
         ]_vars
    /\ [][/\ Len(toBrick') > Len(toBrick)
             => \E c \in Callers :
                   /\ pc[c] \in {"idle", "done", "chunk"}
                   /\ cur'[c].gen # cur[c].gen
                   /\ cur'[c].nsend = Exchanged(c)' + 1
          /\ Len(fromBrick') < Len(fromBrick)
             => \E c \in Callers : pc[c] = "sent" /\ RecvStep(c) /\ pc'[c] # "sent"
         ]_vars

\* C20: get_display_data read three chunks, the read of the fourth timed out,
\* and the call returned the transport failure after four sends and four
\* receives, the request for the fifth chunk never written
C20_Witness ==
    /\ pc["A"] = "done"
    /\ cur["A"].op = "get_display_data"
    /\ result["A"].err = "Usb"
    /\ cur["A"].arg = 3
    /\ cur["A"].nsend = 4 /\ cur["A"].nrecv = 4
    /\ Len(cur["A"].acc) = 3 * DISPLAY_DATA_CHUNK_SIZE
    /\ toBrick = <<>>

\* the reply read by caller c's call is a well-formed packet with a status byte
ReplyWellFormed(c) ==
    /\ cur[c].nrecv = 1
    /\ Packet_parse(cur[c].got.bytes).err = "Ok"
    /\ Len(cur[c].got.bytes) >= 3

\* C22: send(packet, true) that has written the request reads exactly once,
\* returns Ok only if the reply's opcode is the request's and its status byte
\* is 0x00, and returns the device error named by a recognised non-zero status
\* byte; send(packet, false) has read nothing when it returns.
C22_SendChecksStatus ==
    /\ [](\A c \in Callers :
            LET b == cur[c].got.bytes IN
            /\ (cur[c].check /\ pc[c] = "done" /\ result[c].err = "Ok")
                  => /\ cur[c].nsend = 1 /\ ReplyWellFormed(c)
                     /\ b[2] = cur[c].pkt.opcode
                     /\ b[3] = DeviceError_None
            /\ (cur[c].check /\ pc[c] = "done" /\ ReplyWellFormed(c)
                  /\ b[3] \in DeviceErrorSet \ {DeviceError_None})
                  => (result[c].err = "Device" /\ result[c].val = b[3])
            /\ (cur[c].check /\ pc[c] = "done" /\ ReplyWellFormed(c)
                  /\ b[3] = DeviceError_None /\ b[2] = cur[c].pkt.opcode)
                  => result[c].err = "Ok"
            /\ (cur[c].check /\ pc[c] = "done"
                  /\ result[c].err \in {"Parse", "Device", "ReplyMismatch"})
                  => cur[c].nrecv = 1
            /\ (~cur[c].check /\ pc[c] = "sent")
                  => /\ cur[c].nsend = Exchanged(c) + 1
                     /\ cur[c].nrecv = Exchanged(c)
                     /\ cur[c].got = NoMsg)
    /\ [][\A c \in Callers :
            /\ (cur'[c].gen # cur[c].gen) => fromBrick' = fromBrick
            /\ (cur[c].check /\ pc[c] = "sent" /\ pc'[c] = "done")
                  => (cur'[c].nrecv = 1 /\ Len(fromBrick') >= Len(fromBrick) - 1)
         ]_vars

\* C22: stop_program, sent with check_status, has read the reply
\* [0x02, 0x01, 0x00] and returned Ok
C22_Witness ==
    /\ pc["A"] = "done"
    /\ cur["A"].op = "stop_program" /\ cur["A"].check
    /\ cur["A"].got.bytes = <<PacketType_Reply, DirectStopProgram, DeviceError_None>>
    /\ cur["A"].nsend = 1 /\ cur["A"].nrecv = 1
    /\ result["A"].err = "Ok"

\* C32: a write that takes fewer bytes than the serialised packet makes the
\* call fail with Error::Write in that step: the bytes written are a proper
\* prefix of the packet, the call has made one transport send and no receive,
\* with check_status or without, and afterwards it neither reads a reply nor
\* writes the rest.
C32_ShortWriteFails ==
    /\ [](\A c \in Callers :
            result[c].err = "Write"
               => /\ pc[c] = "done"
                  /\ cur[c].nsend = Exchanged(c) + 1
                  /\ cur[c].nrecv = Exchanged(c)
                  /\ cur[c].got = NoMsg /\ cur[c].recv = NoPacket)
    /\ [][\A c \in Callers :
            /\ (cur'[c].gen # cur[c].gen /\ toBrick' # toBrick)
                  => LET whole == serialise(cur'[c].pkt, BUF_LEN).bytes
                         m == toBrick'[Len(toBrick')].bytes
                     IN  /\ Len(toBrick') = Len(toBrick) + 1
                         /\ SubSeq(toBrick', 1, Len(toBrick)) = toBrick
                         /\ m = SubSeq(whole, 1, Len(m))
                         /\ Len(m) < Len(whole)
                               => (pc'[c] = "done" /\ result'[c].err = "Write")
                         /\ Len(m) = Len(whole) => pc'[c] = "sent"
            /\ (result[c].err = "Write" /\ cur'[c].gen = cur[c].gen)
                  => /\ cur'[c] = cur[c] /\ result'[c] = result[c]
                     /\ Len(toBrick') <= Len(toBrick)
                     /\ fromBrick' = fromBrick \/ Len(fromBrick') > Len(fromBrick)
         ]_vars

\* C32: stop_program, which sends with check_status, met a short write: one
\* of the packet's two bytes went out, the call returned Error::Write and has
\* read nothing
C32_Witness ==
    /\ pc["A"] = "done"
    /\ cur["A"].op = "stop_program" /\ cur["A"].check
    /\ result["A"].err = "Write"
    /\ cur["A"].nsend = 1 /\ cur["A"].nrecv = 0
    /\ toBrick # <<>>
    /\ toBrick[Len(toBrick)].bytes = <<PacketType_Direct>>

-----------------------------------------------------------------------------
(* Claims checked under SpecLs                                             *)

\* some step of SpecLs is possible: the guards of LsFindFirst, LsFindNext or
\* LsExit, BrickFind and LsReceive
LsCanStep ==
    \/ pc["A"] = "idle" /\ Len(toBrick) + Len(fromBrick) < MaxPending
    \/ /\ pc["A"] = "done" /\ ~log.exited
       /\ (result["A"].err = "Ok" => Len(toBrick) + Len(fromBrick) < MaxPending)
    \/ toBrick # <<>>
    \/ pc["A"] = "sent" /\ fromBrick # <<>>

\* C2: over a directory of k >= 1 entries the loop of ls.rs obtains the k
\* entries, in order, then one device error, after k + 1 find requests and
\* no more (every request, reply and exit is counted, so the run is finite);
\* the program is never stuck before it exits, and does nothing afterwards.
C2_LsIteration ==
    LET k == Len(brick.dir) IN
    k >= 1 =>
        /\ log.requests <= k + 1
        /\ Len(log.matches) <= k
        /\ \A i \in DOMAIN log.matches :
              /\ log.matches[i].name = brick.dir[i].name
              /\ log.matches[i].len = brick.dir[i].size
        /\ Len(log.errors) <= 1
        /\ log.errors # <<>> =>
              /\ log.errors[1] = "Device"
              /\ Len(log.matches) = k
              /\ log.requests = k + 1
        /\ log.exited => (log.errors # <<>> /\ toBrick = <<>> /\ fromBrick = <<>>)
        /\ log.exited <=> ~LsCanStep

\* C2: the loop has exited after listing a directory of two entries
C2_Witness ==
    /\ Len(brick.dir) = 2
    /\ log.exited
    /\ Len(log.matches) = 2
    /\ log.errors = <<"Device">>
    /\ log.requests = 3

-----------------------------------------------------------------------------
(* Claims checked under SpecShared                                         *)

\* C4: a call ends with ReplyMismatch exactly when the reply it read carries
\* another opcode than its request, and such a reply always answers another
\* request than the caller's own.
C4_MismatchIsForeignReply ==
    \A c \in Callers :
        pc[c] = "done" =>
            /\ result[c].err = "ReplyMismatch"
                  <=> cur[c].got.bytes[2] # cur[c].pkt.opcode
            /\ result[c].err = "ReplyMismatch" => cur[c].got.tag # TagOf(c)

\* C4: both callers have sent, with different opcodes; one has read the reply
\* to the other's request, which is still waiting, and failed with
\* ReplyMismatch.
C4_Witness ==
    \E c, d \in Callers :
        /\ c # d
        /\ pc[c] = "done" /\ pc[d] = "sent"
        /\ cur[c].pkt.opcode # cur[d].pkt.opcode
        /\ cur[c].got.tag = TagOf(d)
        /\ result[c].err = "ReplyMismatch"

\* C5: get_input_values succeeds on any get-input-values reply, and returns
\* the reading of the port that reply is about, whichever port was asked for.
C5_InputValuesOfTheReplyRead ==
    \A c \in Callers :
        (/\ pc[c] = "done" /\ cur[c].op = "get_input_values"
         /\ cur[c].got.bytes[2] = DirectGetInVals)
        => (/\ result[c].err = "Ok"
            /\ result[c].out = SensorReading(cur[c].got.bytes[4]))

\* C5: two callers asked for different ports; each has read the reply to the
\* other's request and returned Ok with the other port's reading.
C5_Witness ==
    \E c, d \in Callers :
        /\ c # d
        /\ pc[c] = "done" /\ pc[d] = "done"
        /\ cur[c].op = "get_input_values" /\ cur[d].op = "get_input_values"
        /\ cur[c].arg # cur[d].arg
        /\ cur[c].got.tag = TagOf(d) /\ cur[d].got.tag = TagOf(c)
        /\ result[c].err = "Ok" /\ result[d].err = "Ok"
        /\ result[c].out = SensorReading(cur[d].arg)
        /\ result[d].out = SensorReading(cur[c].arg)

-----------------------------------------------------------------------------
(* Claims checked under SpecStream                                         *)

\* every message sent so far fits the smallest receive buffer
AllFit == \A i \in DOMAIN stream.sent : \A b \in RecvBufLens : Len(stream.sent[i]) <= b

\* the results of recv so far are the messages sent, in order
RcvdIsSent ==
    /\ Len(stream.rcvd) <= Len(stream.sent)
    /\ \A i \in DOMAIN stream.rcvd :
          /\ stream.rcvd[i].err = "Ok"
          /\ stream.rcvd[i].bytes = stream.sent[i]

\* C3: when no stream operation fails and every message fits the receiver's
\* buffer, successive recv calls return the messages sent, in order and with
\* their boundaries.  (The statement of the claim; send uses write, which may
\* take less than the whole payload, so this does not hold.)
C3_FramingRoundTrip == (~stream.failed /\ AllFit) => RcvdIsSent

\* C3: the same, for runs in which every write took the whole payload
C3_RoundTripOfCompleteWrites ==
    (~stream.failed /\ ~stream.short /\ AllFit) => RcvdIsSent

\* C3: the failing case.  send([7]) wrote the prefix and none of the payload,
\* send([]) followed, and recv returned [0].
C3_Witness ==
    /\ ~stream.failed
    /\ stream.sent = << <<7>>, <<>> >>
    /\ Len(stream.rcvd) = 1
    /\ stream.rcvd[1].err = "Ok"
    /\ stream.rcvd[1].bytes = <<0>>

\* a step in which task t, in recv, has read a prefix (the read did not fail)
\* that declares more bytes than its buffer holds
TooLongPrefixRead(t) ==
    /\ bt.task[t].pc = "r_prefix"
    /\ bt'.task[t].pc # "r_prefix"
    /\ bt'.task[t].ret.err # "Io"
    /\ Len(stream.inc) >= 2
    /\ stream.inc[1] + 256 * stream.inc[2] > bt.task[t].buflen

\* C17: when the prefix recv reads declares more bytes than the buffer holds,
\* recv returns a parse failure in that step, with no data, and takes nothing
\* but the two prefix bytes from the stream; a recv never goes on to read a
\* payload longer than its buffer.
C17_TooLongIsParseFailure ==
    [][\A t \in Tasks :
          /\ TooLongPrefixRead(t) =>
                /\ bt'.task[t].pc = "idle"
                /\ bt'.task[t].ret.err = "Parse"
                /\ bt'.task[t].ret.msg = "Data too long for buffer"
                /\ bt'.task[t].ret.bytes = <<>>
                /\ stream'.inc = SubSeq(stream.inc, 3, Len(stream.inc))
                /\ stream'.rcvd = Append(stream.rcvd, bt'.task[t].ret)
          /\ bt'.task[t].pc = "r_payload" => bt'.task[t].n <= bt'.task[t].buflen
      ]_vars

\* C17: a 3-byte message met a 2-byte buffer: recv failed and the three
\* payload bytes are still on the stream
C17_Witness ==
    \E t \in Tasks :
        /\ stream.sent = << <<3, 0, 9>> >>
        /\ bt.task[t].pc = "idle" /\ bt.task[t].buflen = 2
        /\ bt.task[t].ret.err = "Parse"
        /\ bt.task[t].ret.msg = "Data too long for buffer"
        /\ stream.inc = <<3, 0, 9>>
        /\ ~stream.failed /\ ~stream.short

\* task t is inside a send or a recv, between taking the lock and returning
InCall(t) == bt.task[t].pc \in {"s_prefix", "s_payload", "r_prefix", "r_payload"}

\* every byte written and not yet read, oldest first
OnStream == stream.inc \o stream.out

\* C30: the lock is held by exactly the task that is inside a send or a recv,
\* so at most one is; bytes are written to the stream and taken from it only
\* by the holder; while a send is between its two writes the stream ends
\* with that send's prefix, and the payload is written directly behind it;
\* while a recv is between its two reads nothing else reads; and a task that
\* has returned from a send holds no lock when it calls recv.
C30_LockCoversOneCall ==
    /\ [](\A t \in Tasks :
            /\ InCall(t) <=> bt.lock = t
            /\ bt.task[t].pc = "s_payload"
                  => LET prefix == le_bytes_u16(Len(bt.task[t].msg))
                         n == Len(OnStream)
                     IN  \/ n >= 2 /\ SubSeq(OnStream, n - 1, n) = prefix
                         \/ stream.failed /\ n >= 1 /\ OnStream[n] = prefix[1])
    /\ [][/\ stream'.out # stream.out /\ stream'.inc = stream.inc
             => \E t \in Tasks :
                   /\ bt.lock = t
                   /\ bt.task[t].pc \in {"s_prefix", "s_payload"}
                   /\ \A u \in Tasks \ {t} : bt'.task[u] = bt.task[u]
                   /\ bt.task[t].pc = "s_payload"
                         => \E k \in 0..Len(bt.task[t].msg) :
                               stream'.out = stream.out \o SubSeq(bt.task[t].msg, 1, k)
          /\ stream'.inc # stream.inc /\ stream'.out = stream.out
             => \E t \in Tasks :
                   /\ bt.lock = t
                   /\ bt.task[t].pc \in {"r_prefix", "r_payload"}
                   /\ \A u \in Tasks \ {t} : bt'.task[u] = bt.task[u]
          /\ \A t \in Tasks :
                (bt.task[t].pc = "idle" /\ bt'.task[t].pc = "r_prefix")
                   => (bt.lock = "none" /\ bt'.lock = t)
         ]_vars

\* C30: t1 has completed a send of <<3, 0, 9>>; t2, inside its send of <<7>>,
\* holds the lock with its prefix written behind t1's message, and t1 is idle
C30_Witness ==
    /\ bt.lock = "t2"
    /\ bt.task["t2"].pc = "s_payload" /\ bt.task["t2"].msg = <<7>>
    /\ bt.task["t1"].pc = "idle" /\ bt.task["t1"].msg = <<3, 0, 9>>
    /\ bt.task["t1"].ret.err = "Ok" /\ bt.task["t1"].ret.val = 3
    /\ OnStream = <<3, 0, 3, 0, 9, 1, 0>>

\* the latest recv to return failed on a declared length exceeding its
\* buffer, the recv calls before it returned the messages sent in order, every
\* write so far was complete, and no recv has read from the stream since: the
\* prefix the failed recv read was that of message Len(stream.rcvd)
FailedAtBoundary ==
    /\ stream.rcvd # <<>>
    /\ Len(stream.rcvd) <= Len(stream.sent)
    /\ stream.rcvd[Len(stream.rcvd)].err = "Parse"
    /\ \A i \in 1..(Len(stream.rcvd) - 1) :
          stream.rcvd[i].err = "Ok" /\ stream.rcvd[i].bytes = stream.sent[i]
    /\ ~stream.failed /\ ~stream.short
    /\ \A t \in Tasks : bt.task[t].pc # "r_payload"

\* the message whose prefix the failed recv read
Leftover == stream.sent[Len(stream.rcvd)]

\* C31: once recv has failed on a declared length exceeding the buffer, the
\* stream begins with the whole payload of that message (the two prefix bytes
\* and nothing else were taken), and the recv that reads next, its read not
\* failing, takes the first two bytes of that payload as its length: it goes
\* on to read that many bytes, or fails in turn when they exceed its buffer.
C31_NextPrefixFromLeftover ==
    /\ [](FailedAtBoundary =>
             /\ Len(OnStream) >= Len(Leftover)
             /\ SubSeq(OnStream, 1, Len(Leftover)) = Leftover)
    /\ [][\A t \in Tasks :
             (/\ FailedAtBoundary
              /\ bt.task[t].pc = "r_prefix"
              /\ bt'.task[t].pc # "r_prefix"
              /\ bt'.task[t].ret.err # "Io")
             => /\ Len(Leftover) >= 2
                /\ stream.inc[1] = Leftover[1] /\ stream.inc[2] = Leftover[2]
                /\ stream'.inc = SubSeq(stream.inc, 3, Len(stream.inc))
                /\ LET n == Leftover[1] + 256 * Leftover[2] IN
                   IF n <= bt.task[t].buflen
                   THEN bt'.task[t].pc = "r_payload" /\ bt'.task[t].n = n
                   ELSE bt'.task[t].pc = "idle" /\ bt'.task[t].ret.err = "Parse"
         ]_vars

\* C31: recv failed on the message <<3, 0, 9>> with a 2-byte buffer; the next
\* recv, with a 64-byte buffer, read <<3, 0>> as its prefix and now waits for
\* three bytes, of which the stream holds one, the 9
C31_Witness ==
    /\ stream.sent = << <<3, 0, 9>> >>
    /\ Len(stream.rcvd) = 1 /\ stream.rcvd[1].err = "Parse"
    /\ bt.task["t1"].pc = "r_payload"
    /\ bt.task["t1"].buflen = BUF_LEN /\ bt.task["t1"].n = 3
    /\ OnStream = <<9>>
    /\ ~stream.failed /\ ~stream.short

-----------------------------------------------------------------------------
(* Claims checked under SpecAdapter                                        *)

\* the slot has been written at most once, it is set exactly if it has been
\* written, and every call that returned Ok returned the adapter stored
AdapterStoredOnce ==
    /\ bt.writes <= 1
    /\ bt.ADAPTER # "None" <=> bt.writes = 1
    /\ \A c \in Initializers :
          (bt.call[c].pc = "done" /\ bt.call[c].err = "Ok")
              => (bt.ADAPTER # "None" /\ bt.call[c].adapter = bt.ADAPTER)

\* C18: under every interleaving of init_adapter calls the slot is written
\* at most once, every successful call returns the adapter stored in it,
\* also a call that built an adapter of its own, and the slot, once set,
\* never changes.
C18_AdapterCreatedOnce ==
    /\ []AdapterStoredOnce
    /\ [][bt.ADAPTER # "None" => bt'.ADAPTER = bt.ADAPTER]_vars

\* C18: two calls both built an adapter; one stored its own and the other,
\* having lost the race, returned the winner's
C18_Witness ==
    \E c, d \in Initializers :
        /\ c # d
        /\ bt.call[c].pc = "done" /\ bt.call[d].pc = "done"
        /\ bt.call[c].own = c /\ bt.call[d].own = d
        /\ bt.ADAPTER = d
        /\ bt.call[c].err = "Ok" /\ bt.call[c].adapter = d
        /\ bt.call[d].err = "Ok" /\ bt.call[d].adapter = d

-----------------------------------------------------------------------------
(* Claims checked under SpecMsg                                            *)

\* the inbox and the message of caller c's message_write are accepted
MsgAccepted(c) ==
    /\ cur[c].arg.inbox <= MAX_INBOX_ID
    /\ Len(cur[c].arg.message) <= MAX_MESSAGE_LEN

\* the bytes message_write is to send for caller c's inbox and message
MsgBytes(c) ==
    <<PacketType_Direct, DirectMessageWrite, cur[c].arg.inbox,
      Len(cur[c].arg.message) + 1>> \o cur[c].arg.message \o <<0>>

\* C21: message_write with an inbox above 19 or a message above 58 bytes
\* returns Error::Serialise and calls write_bulk not at all; for every other
\* input the length byte is len(message) + 1, below 256, the serialised
\* packet is at most 64 bytes, and these are the bytes handed to write_bulk.
C21_MessageWriteBounds ==
    /\ [](\A c \in Callers : cur[c].op = "message_write" =>
            IF MsgAccepted(c)
            THEN /\ cur[c].nsend = 1
                 /\ Len(cur[c].arg.message) + 1 < 256
                 /\ serialise(cur[c].pkt, BUF_LEN).err = "Ok"
                 /\ serialise(cur[c].pkt, BUF_LEN).bytes = MsgBytes(c)
                 /\ Len(MsgBytes(c)) <= BUF_LEN
                 /\ MsgBytes(c)[4] = Len(cur[c].arg.message) + 1
            ELSE /\ pc[c] = "done"
                 /\ result[c].err = "Serialise"
                 /\ cur[c].nsend = 0 /\ cur[c].nrecv = 0)
    /\ [][\A c \in Callers :
            (cur'[c].op = "message_write" /\ cur'[c].gen # cur[c].gen) =>
                IF MsgAccepted(c)' /\ pc'[c] = "sent"
                THEN toBrick' = Append(toBrick, [bytes |-> MsgBytes(c)', tag |-> TagOf(c)'])
                ELSE IF MsgAccepted(c)' THEN pc'[c] = "done"
                ELSE toBrick' = toBrick
         ]_vars

\* C21: a message of 58 bytes to inbox 19 has been sent as a packet of 63
\* bytes with the length byte 59, and a call with a message of 59 bytes has
\* since been refused with nothing transmitted
C21_Witness ==
    /\ pc["A"] = "done"
    /\ cur["A"].op = "message_write"
    /\ cur["A"].arg = [inbox |-> MAX_INBOX_ID, message |-> MessageOfLen(MAX_MESSAGE_LEN + 1)]
    /\ result["A"].err = "Serialise"
    /\ result["A"].msg = "Message too long (max 58 bytes)"
    /\ cur["A"].nsend = 0
    /\ Len(toBrick) = 1
    /\ Len(toBrick[1].bytes) = 63
    /\ toBrick[1].bytes[3] = MAX_INBOX_ID
    /\ toBrick[1].bytes[4] = 59

-----------------------------------------------------------------------------
(* Claims checked under SpecSerial                                         *)

\* C23: with exchanges serialised, every request answered once and no
\* transport failure, nothing is pending on the channel while no operation is
\* in flight, at most one message is ever in flight, every receive has read
\* the reply to its own call's request, and no call returns ReplyMismatch.
C23_OneRequestOneReply ==
    /\ NoneInFlight => (toBrick = <<>> /\ fromBrick = <<>>)
    /\ Len(toBrick) + Len(fromBrick) <= 1
    /\ \A c \in Callers :
          /\ (pc[c] = "sent" /\ fromBrick # <<>>) => fromBrick[1].tag = TagOf(c)
          /\ cur[c].nrecv = 1
                => /\ cur[c].got.tag = TagOf(c)
                   /\ cur[c].got.bytes[2] = cur[c].pkt.opcode
          /\ pc[c] = "done"
                => /\ result[c].err = "Ok"
                   /\ cur[c].nsend = 1 /\ cur[c].nrecv = 1

\* C23: A and B have each completed an operation of their own, each on the
\* reply to its own request, and the channel is empty
C23_Witness ==
    /\ pc["A"] = "done" /\ pc["B"] = "done"
    /\ cur["A"].op = "get_battery_level" /\ cur["B"].op = "get_input_values"
    /\ cur["B"].arg = 3
    /\ cur["A"].got.tag = TagOf("A") /\ cur["B"].got.tag = TagOf("B")
    /\ result["A"].err = "Ok" /\ result["A"].val = 7800
    /\ result["B"].err = "Ok" /\ result["B"].out.port = 3
    /\ toBrick = <<>> /\ fromBrick = <<>>

-----------------------------------------------------------------------------
(* Claims checked under SpecLate                                           *)

\* the replies left unread on the channel: the requests not yet answered and
\* the replies not yet read, less the one the call in flight is to read
Unread ==
    Len(toBrick) + Len(fromBrick)
        - Cardinality({c \in Callers : pc[c] = "sent"})

\* C24: the number of replies left unread never decreases, so once a reply is
\* left unread one stays unread for ever; and a receive made while a reply of
\* an earlier request is unread reads the reply to an earlier request, never
\* the reply to its own.
C24_NoResynchronisation ==
    /\ [](Unread >= 0)
    /\ [][Unread' >= Unread]_vars
    /\ [][\A c \in Callers :
            (Unread >= 1 /\ pc[c] = "sent" /\ cur'[c].nrecv = 1 /\ cur'[c].got # NoMsg)
                => /\ cur'[c].got.tag # TagOf(c)
                   /\ cur'[c].got.tag.from = c
                   /\ Unread' >= 1
         ]_vars
    /\ [](\A c \in Callers :
            (pc[c] = "done" /\ cur[c].got # NoMsg /\ cur[c].got.tag # TagOf(c))
                => Unread >= 1)

\* C24: a get_battery_level timed out, its reply arrived afterwards, and the
\* stop_program that followed read that reply and failed with ReplyMismatch,
\* its own reply being left unread in turn
C24_Witness ==
    /\ pc["A"] = "done"
    /\ cur["A"].op = "stop_program"
    /\ cur["A"].got.bytes = <<PacketType_Reply, DirectGetBattLevel, DeviceError_None, 11, 0>>
    /\ cur["A"].got.tag # TagOf("A")
    /\ result["A"].err = "ReplyMismatch"
    /\ Unread = 1
    /\ Len(fromBrick) = 1
    /\ fromBrick[1].tag = TagOf("A")

-----------------------------------------------------------------------------
(* Claims checked under SpecRead                                           *)

\* the bytes left to read in the packet the last call was made on, and the
\* i-th of them
PreRemaining == Len(ret.pre.data) - ret.pre.data_offset
PreByte(i) == ret.pre.data[ret.pre.data_offset + i]

\* the last call moved the cursor by w and changed nothing else of the packet
Advanced(w) == pkt = [ret.pre EXCEPT !.data_offset = @ + w]

\* the packet parsed from the serialisation of p
ParsedBack(p) == Packet_parse(serialise(p, BUF_LEN).bytes).pkt

\* C25: with at least w bytes left, read_u16 / read_i16 (w = 2) and read_u32 /
\* read_i32 (w = 4) return the little-endian value of the next w bytes and
\* move the cursor by w; so the bytes of push_u16 / push_u32 read back as the
\* value pushed.
C25_LittleEndianReads ==
    /\ (ret.op \in {"read_u16", "read_i16"} /\ PreRemaining >= 2)
          => /\ ret.err = "Ok" /\ Advanced(2)
             /\ LET u == PreByte(1) + 256 * PreByte(2) IN
                ret.val = IF ret.op = "read_i16" /\ u >= 32768 THEN u - 65536 ELSE u
    /\ (ret.op = "read_u32" /\ PreRemaining >= 4)
          => /\ ret.err = "Ok" /\ Advanced(4)
             /\ ret.val = PreByte(1) + 256 * PreByte(2)
             /\ ret.hi = PreByte(3) + 256 * PreByte(4)
    /\ (ret.op = "read_i32" /\ PreRemaining >= 4)
          => /\ ret.err = "Ok" /\ Advanced(4)
             /\ LET low == PreByte(1) + 256 * PreByte(2) + 65536 * PreByte(3)
                hi7 == PreByte(4) % 128
                IN  ret.val = IF PreByte(4) >= 128
                              THEN ((low + 16777216 * hi7) - 2147483647) - 1
                              ELSE low + 16777216 * hi7
    /\ \A v \in TestU16 :
          (ret.op = "read_u16"
             /\ ret.pre = ParsedBack(push_u16(Packet_new(SystemFindfirst), v)))
          => (ret.err = "Ok" /\ ret.val = v)
    /\ \A v \in TestU32 :
          (ret.op = "read_u32"
             /\ ret.pre = ParsedBack(push_u32(Packet_new(SystemFindfirst), v)))
          => (ret.err = "Ok" /\ ret.val = v.lo /\ ret.hi = v.hi)

\* C25: after a read_u16 that took the bytes 34 12, read_i16 has returned -1
\* from the bytes FF FF and moved the cursor from 4 to 6
C25_Witness ==
    /\ ret.op = "read_i16"
    /\ ret.pre.data = <<PacketType_System, SystemFindfirst, 52, 18, 255, 255, 128>>
    /\ ret.pre.data_offset = 4
    /\ ret.err = "Ok" /\ ret.val = -1
    /\ pkt.data_offset = 6

\* a read other than parse has been made on the packet
ReadMade == ret.op \in ReadOps

\* the number of bytes the last call asked for
Asked ==
    CASE ret.op \in {"read_bool", "read_u8", "read_i8"} -> 1
      [] ret.op \in {"read_u16", "read_i16"} -> 2
      [] ret.op \in {"read_u32", "read_i32"} -> 4
      [] ret.op = "read_filename" -> FILENAME_LEN
      [] ret.op \in {"read_slice", "read_string"} -> ret.arg
      [] OTHER -> 0

\* C26: after any sequence of reads the cursor is within 0 .. length of the
\* packet's bytes; a read asking for more bytes than remain fails with
\* Error::Parse and returns no bytes; a successful read returns bytes of the
\* packet only and never moves the cursor backwards.
C26_CursorInBounds ==
    /\ 0 <= pkt.data_offset /\ pkt.data_offset <= Len(pkt.data)
    /\ ReadMade =>
          /\ pkt.data = ret.pre.data
          /\ pkt.data_offset >= ret.pre.data_offset
          /\ pkt.data_offset - ret.pre.data_offset <= Asked
          /\ Asked > PreRemaining
                => (ret.err = "Parse" /\ ret.bytes = <<>> /\ ret.val = 0 /\ ret.hi = 0)
          /\ (ret.err = "Ok" /\ ret.op \in {"read_slice", "read_string", "read_filename"})
                => /\ Asked <= PreRemaining
                   /\ \E k \in 0..Asked :
                         ret.bytes = SubSeq(ret.pre.data, ret.pre.data_offset + 1,
                                            ret.pre.data_offset + k)

\* C26: with 3 bytes left after two reads, read_u32 has failed with
\* Error::Parse and the cursor stands at the end of the packet
C26_Witness ==
    /\ ret.op = "read_u32"
    /\ ret.pre.data = <<PacketType_System, SystemFindfirst, 52, 18, 255, 255, 128>>
    /\ ret.pre.data_offset = 4
    /\ ret.err = "Parse" /\ ret.msg = EndOfInput
    /\ pkt.data_offset = Len(pkt.data)

\* C27: a read_slice, read_filename or read_string that fails for lack of
\* bytes leaves the cursor where it was; a read_u16 / read_i16 / read_u32 /
\* read_i32 that fails for lack of bytes leaves the cursor behind the bytes
\* that were there, at the end of the packet.
C27_CursorAfterFailedRead ==
    /\ (ret.op \in {"read_slice", "read_filename", "read_string"}
          /\ Asked > PreRemaining)
          => (ret.err = "Parse" /\ pkt = ret.pre)
    /\ (ret.op \in {"read_u16", "read_i16", "read_u32", "read_i32"}
          /\ Asked > PreRemaining)
          => /\ ret.err = "Parse"
             /\ Advanced(PreRemaining)
             /\ pkt.data_offset = Len(pkt.data)

\* C27: read_i32 with 3 bytes left has failed and taken the 3 bytes
C27_Witness ==
    /\ ret.op = "read_i32"
    /\ ret.pre.data = <<PacketType_System, SystemFindfirst, 52, 18, 255, 255, 128>>
    /\ ret.pre.data_offset = 4
    /\ ret.err = "Parse"
    /\ pkt.data_offset = 7

\* the 20-byte field under the cursor of the packet the last call was made on
PreField ==
    SubSeq(ret.pre.data, ret.pre.data_offset + 1, ret.pre.data_offset + FILENAME_LEN)

\* C28 (as stated): read_filename on a 20-byte field takes the 20 bytes and
\* returns them with the trailing NUL bytes stripped, whatever the field holds.
C28_FilenameStripsTrailingNuls ==
    (ret.op = "read_filename" /\ PreRemaining >= FILENAME_LEN)
        => /\ ret.err = "Ok"
           /\ Advanced(FILENAME_LEN)
           /\ ret.bytes = strip_trailing_nul(PreField)

\* C28 (amended): read_filename on a 20-byte field takes the 20 bytes and
\* returns the bytes before the field's first NUL byte (the whole field when
\* it has none), which is the field less its trailing NULs exactly when no NUL
\* is followed by a non-NUL byte; when the bytes before the first NUL are not
\* UTF-8 it fails with the invalid-string error, the 20 bytes taken.
C28_FilenameEndsAtFirstNul ==
    (ret.op = "read_filename" /\ PreRemaining >= FILENAME_LEN)
        => /\ Advanced(FILENAME_LEN)
           /\ LET text == IF \E i \in 1..FILENAME_LEN : PreField[i] = 0
                          THEN SubSeq(PreField, 1,
                                   (CHOOSE i \in 1..FILENAME_LEN :
                                       /\ PreField[i] = 0
                                       /\ \A j \in 1..(i - 1) : PreField[j] # 0) - 1)
                          ELSE PreField
              IN  /\ is_utf8(text) => (ret.err = "Ok" /\ ret.bytes = text)
                  /\ ~is_utf8(text) => (ret.err = "InvalidString" /\ ret.bytes = <<>>)
                  /\ (\A i \in 1..(FILENAME_LEN - 1) :
                         PreField[i] = 0 => PreField[i + 1] = 0)
                        => text = strip_trailing_nul(PreField)

\* C28: read_filename on the field "a\0b" and 17 NULs has returned "a", not
\* "a\0b", and taken the 20 bytes
C28_Witness ==
    /\ ret.op = "read_filename"
    /\ ret.pre.data_offset = 2
    /\ PreRemaining >= FILENAME_LEN
    /\ PreField = WITH_NUL \o Zeros(FILENAME_LEN - 3)
    /\ ret.err = "Ok"
    /\ ret.bytes = <<97>>
    /\ pkt.data_offset = 2 + FILENAME_LEN

\* the packet parsed from the bytes of a request carrying the filename field
\* of name and one byte more
ParsedName(name) ==
    ParsedBack(push_u8(push_filename(Packet_new(SystemFindfirst), name).pkt, 9))

\* C29: for an ASCII name without NUL of at most 19 bytes, read_filename on
\* the field written by push_filename returns the name and moves the cursor by
\* 20 bytes, to the byte pushed behind the field.
C29_FilenameRoundTrip ==
    \A name \in ReadNames :
        /\ is_ascii(name) /\ Len(name) <= FILENAME_LEN - 1
        /\ \A i \in 1..Len(name) : name[i] # 0
        /\ push_filename(Packet_new(SystemFindfirst), name).err = "Ok"
        /\ (ret.op = "read_filename" /\ ret.pre = ParsedName(name))
              => /\ ret.err = "Ok"
                 /\ ret.bytes = name
                 /\ Advanced(FILENAME_LEN)
                 /\ read_u8(pkt).val = 9

\* C29: the name of 19 bytes has been read back from its field
C29_Witness ==
    /\ ret.op = "read_filename"
    /\ ret.pre = ParsedName(NameOfLen(FILENAME_LEN - 1))
    /\ ret.err = "Ok"
    /\ ret.bytes = NameOfLen(FILENAME_LEN - 1)
    /\ pkt.data_offset = 2 + FILENAME_LEN

-----------------------------------------------------------------------------
(* Claims checked under SpecFile                                           *)

\* a step in which caller c starts a call whose request goes out
Transmits(c) == cur'[c].gen # cur[c].gen /\ toBrick' # toBrick

\* the request written in this step
Written == toBrick'[Len(toBrick')].bytes

\* C33: a file_read request has the opcode SystemRead (0x82), never the
\* opcode of an open request, and carries the handle byte and the requested
\* length; a request with the opcode SystemClose (0x84) is written by
\* file_close only, with the byte of the handle it was given.  (The statement
\* of the claim; file_read builds its packet with Opcode::SystemOpenread, so
\* this does not hold.)
C33_FileReadSendsReadOpcode ==
    [][\A c \in Callers :
          Transmits(c) =>
             /\ cur'[c].op = "file_read"
                   => /\ Written[2] = SystemRead
                      /\ Written[2] # SystemOpenread
                      /\ Written[3] = cur'[c].arg
                      /\ \E len \in TestReadLens :
                            SubSeq(Written, 4, Len(Written)) = le_bytes_u32(len)
             /\ Written[2] = SystemClose
                   => (cur'[c].op = "file_close" /\ Written[3] = cur'[c].arg)
             /\ cur'[c].op = "file_close"
                   => Written = <<PacketType_System, SystemClose, cur'[c].arg>>
      ]_vars

\* C33: what holds.  A request with the opcode SystemClose is written by
\* file_close only, with the byte of the handle it was given, and file_read
\* writes the handle byte and the requested length behind the opcode
\* SystemOpenread (0x80), as file_open_read writes a name.
C33_CloseOnlyByFileClose ==
    [][\A c \in Callers :
          Transmits(c) =>
             /\ cur'[c].op = "file_read"
                   => /\ Written[2] = SystemOpenread
                      /\ Written[3] = cur'[c].arg
                      /\ \E len \in TestReadLens :
                            SubSeq(Written, 4, Len(Written)) = le_bytes_u32(len)
             /\ Written[2] = SystemClose
                   => (cur'[c].op = "file_close" /\ Written[3] = cur'[c].arg)
             /\ cur'[c].op = "file_close"
                   => Written = <<PacketType_System, SystemClose, cur'[c].arg>>
      ]_vars

\* C33: the failing case.  file_read on handle 1 for 3 bytes has written
\* [0x01, 0x80, 0x01, 0x03, 0x00, 0x00, 0x00], an open-read request
C33_Witness ==
    /\ pc["A"] = "sent"
    /\ cur["A"].op = "file_read" /\ cur["A"].arg = 1
    /\ toBrick # <<>>
    /\ toBrick[Len(toBrick)].bytes = <<PacketType_System, SystemOpenread, 1, 3, 0, 0, 0>>

\* the opcode a find-next operation asks with
FindNextOpcode(op) ==
    IF op = "file_find_next" THEN SystemFindnext ELSE SystemFindnextmodule

\* C34: a file_find_next or module_find_next request is the opcode and the
\* handle byte of the handle value passed in; the handle value a successful
\* call returns has the handle byte of the reply it read, whatever byte was
\* sent; and a call made by the iteration loop carries the handle byte of the
\* reply the previous call read.
C34_HandleThreading ==
    [][\A c \in Callers :
          /\ (Transmits(c) /\ cur'[c].op \in {"file_find_next", "module_find_next"})
                => /\ Written = <<PacketType_System, FindNextOpcode(cur'[c].op),
                                  cur'[c].arg>>
                   /\ log'.threaded
                         => /\ cur[c].op = cur'[c].op
                            /\ result[c].err = "Ok"
                            /\ cur'[c].arg = result[c].out.handle
                            /\ cur'[c].arg = cur[c].got.bytes[4]
          /\ (/\ pc[c] = "sent" /\ pc'[c] = "done"
              /\ cur[c].op \in {"file_find_next", "module_find_next"}
              /\ result'[c].err = "Ok")
                => /\ fromBrick # <<>>
                   /\ cur'[c].got = Head(fromBrick)
                   /\ result'[c].out.handle = Head(fromBrick).bytes[4]
      ]_vars

\* C34: the loop over modules called find-next with handle 1, which the
\* previous call had returned, and the reply it read gave handle 2: the
\* value returned holds 2
C34_Witness ==
    /\ log.threaded
    /\ pc["A"] = "done"
    /\ cur["A"].op = "module_find_next" /\ cur["A"].arg = 1
    /\ result["A"].err = "Ok"
    /\ cur["A"].got.bytes[4] = 2
    /\ result["A"].out.handle = 2

\* the packet of caller c's call, serialised, exceeds the 64-byte buffer
TooLong(c) == cur[c].pkt # NoPacket /\ 2 + Len(cur[c].pkt.data) > BUF_LEN

\* C35: a call whose packet exceeds 64 bytes with its type and opcode bytes
\* ends with the error of serialise, having made no transport call; nothing
\* is written in the step that starts it, so no request on the wire is longer
\* than 64 bytes or a truncated packet; a packet of exactly 64 bytes goes
\* out whole.
C35_OversizeNeverSent ==
    /\ [](/\ \A c \in Callers :
               (TooLong(c) /\ cur[c].op = "file_write")
                  => /\ pc[c] = "done"
                     /\ result[c].err = "Io"
                     /\ cur[c].nsend = 0 /\ cur[c].nrecv = 0
          /\ \A i \in DOMAIN toBrick : Len(toBrick[i].bytes) <= BUF_LEN)
    /\ [][\A c \in Callers :
             cur'[c].gen # cur[c].gen
                => /\ TooLong(c)' => toBrick' = toBrick
                   /\ (~TooLong(c)' /\ cur'[c].op = "file_write")
                         => /\ toBrick' # toBrick
                            /\ Written = <<PacketType_System, SystemWrite>>
                                            \o cur'[c].pkt.data
         ]_vars

\* C35: file_write with 62 data bytes built a packet of 65 bytes; the call
\* has returned the error of serialise and nothing was written
C35_Witness ==
    /\ pc["A"] = "done"
    /\ cur["A"].op = "file_write"
    /\ Len(cur["A"].pkt.data) = BUF_LEN - 1
    /\ result["A"].err = "Io"
    /\ cur["A"].nsend = 0
    /\ toBrick = <<>> /\ fromBrick = <<>>

====
